---- MODULE Spec2Model ----
(***************************************************************************)
(* Security gate of the agent generator.                                   *)
(*                                                                         *)
(*  - Static Source Validator: scripts/validate_code.py                    *)
(*      validate_python_code, SecurityValidator(ast.NodeVisitor)           *)
(*  - Capability Policy Engine: scripts/generate-agent-enhanced.py         *)
(*      SecurityValidator.generate_security_policy / validate_tool_call    *)
(*                                                                         *)
(* Source text is a sequence of physical lines.  A line is a record that   *)
(* fixes both its raw text (LineText, a sequence of text tokens, used by   *)
(* the line heuristics) and its syntax (used by Parse).  Strings that the  *)
(* policy engine matches with regular expressions are sequences of         *)
(* one-character strings.                                                  *)
(***************************************************************************)
EXTENDS Integers, Sequences, FiniteSets, TLC

VARIABLES
    code,       \* source text handed to validate_python_code
    vself,      \* the SecurityValidator(ast.NodeVisitor) instance storage
    vres,       \* outcome of the last validate_python_code call
    vprev,      \* an earlier call of the same process: [code, res]
    tool,       \* capability name handed to validate_tool_call
    params,     \* parameter mapping handed to validate_tool_call
    decision,   \* outcome of the last validate_tool_call
    tools,      \* capability list handed to _validate_tool_security
    security_level,     \* config['security_level']
    failed,     \* capabilities whose generation raised in generate_tools
    validation_results, \* outcome of _validate_tool_security
    calls,      \* the concurrent calls on the shared SecurityValidator
    results,    \* the validation_result dicts in use, by owner
    workflow_steps,     \* MultiToolWorkflow.workflow_steps
    wresults,   \* MultiToolWorkflow.results
    wf,         \* position of execute_workflow and its attempt counts
    features_json,      \* content of features.json
    progress_file,      \* sessions recorded in claude-progress.txt
    agent       \* the LongRunningAgent and the position of its session

classifierVars == <<tools, security_level, failed, validation_results>>
callVars == <<calls, results>>
workflowVars == <<workflow_steps, wresults, wf>>
agentVars == <<features_json, progress_file, agent>>
vars == <<code, vself, vres, vprev, tool, params, decision,
          classifierVars, callVars, workflowVars, agentVars>>

\* ---------------------------------------------------------------- bounds
MaxLines == 2
MaxSeqLines == 1
MaxParams == 2

\* ------------------------------------------------------- sequence helpers
RECURSIVE JoinWith(_, _)
JoinWith(ss, sep) ==
    IF ss = <<>> THEN <<>>
    ELSE IF Len(ss) = 1 THEN ss[1]
    ELSE ss[1] \o sep \o JoinWith(Tail(ss), sep)

\* Python `sub in text` on sequences of text units
Contains(sub, text) ==
    \E i \in 0..(Len(text) - Len(sub)) :
        \A j \in 1..Len(sub) : text[i + j] = sub[j]

\* Python text.startswith(prefix)
StartsWith(text, prefix) ==
    /\ Len(prefix) <= Len(text)
    /\ \A j \in 1..Len(prefix) : text[j] = prefix[j]

\* Python str.strip() on a token sequence: drop blank tokens at both ends
RECURSIVE LStrip(_)
LStrip(text) ==
    IF text # <<>> /\ Head(text) \in {" ", "  "} THEN LStrip(Tail(text)) ELSE text

RECURSIVE RStrip(_)
RStrip(text) ==
    IF text # <<>> /\ text[Len(text)] \in {" ", "  "}
    THEN RStrip(SubSeq(text, 1, Len(text) - 1)) ELSE text

Strip(text) == LStrip(RStrip(text))

\* =========================================================================
\*  Source text
\* =========================================================================
\* expressions as written on a line
EName(id) == [t |-> "Name", id |-> id, kids |-> <<>>]
EAttr(value, attr) == [t |-> "Attribute", id |-> attr, kids |-> <<value>>]
ECall(func, args) == [t |-> "Call", id |-> "", kids |-> <<func>> \o args]
EStrD(s) == [t |-> "StrD", id |-> s, kids |-> <<>>]
EStrS(s) == [t |-> "StrS", id |-> s, kids |-> <<>>]
ELambda(body) == [t |-> "Lambda", id |-> "", kids |-> <<body>>]
ENone == [t |-> "None", id |-> "", kids |-> <<>>]

Line(indent, k, e, mods, level, target, spaced) ==
    [indent |-> indent, k |-> k, e |-> e, mods |-> mods, level |-> level,
     target |-> target, spaced |-> spaced]

ExprLine(indent, e) == Line(indent, "expr", e, <<>>, 0, <<>>, TRUE)
ImportLine(mods) == Line(0, "import", ENone, mods, 0, <<>>, TRUE)
FromLine(level, mods) == Line(0, "from", ENone, mods, level, <<>>, TRUE)
AssignLine(target, spaced, e) == Line(0, "assign", e, <<>>, 0, target, spaced)
DefLine(k) == Line(0, k, ENone, <<>>, 0, <<>>, TRUE)
BadLine == Line(0, "bad", ENone, <<>>, 0, <<>>, TRUE)
SurrogateLine == Line(0, "surrogate", ENone, <<>>, 0, <<>>, TRUE)

LinePool ==
    { ExprLine(0, ECall(EName("eval"), <<EName("x")>>)),
      ExprLine(0, ECall(EAttr(EName("obj"), "compile"), <<>>)),
      ExprLine(0, ECall(EName("print"), <<ECall(EName("open"), <<EName("f")>>)>>)),
      ExprLine(1, ECall(EName("exec"), <<EName("x")>>)),
      ImportLine(<<<<"os", "path">>>>),
      ImportLine(<<<<"os">>, <<"foo", "bar">>>>),
      FromLine(0, <<<<"langgraph", "prebuilt">>>>),
      FromLine(1, <<>>),
      FromLine(0, <<<<"evil", "sub">>>>),
      AssignLine(<<"api_key">>, TRUE, EStrD("sk")),
      AssignLine(<<"api_key">>, TRUE,
                 ECall(EAttr(EName("os"), "getenv"), <<EStrD("K")>>)),
      AssignLine(<<"api_key">>, TRUE, EStrS("sk")),
      AssignLine(<<"api_key">>, FALSE, EStrD("sk")),
      AssignLine(<<"db_", "password">>, TRUE, EStrD("pw")),
      AssignLine(<<"token">>, TRUE,
                 ECall(EAttr(EStrD(""), "join"),
                       <<ECall(EAttr(EName("os"), "getenv"), <<EStrD("K")>>)>>)),
      ExprLine(0, ECall(ECall(EName("eval"), <<EName("x")>>),
                        <<ECall(EName("eval"), <<EName("x")>>)>>)),
      ExprLine(0, ELambda(ECall(EName("exec"), <<EName("x")>>))),
      DefLine("def"),
      DefLine("asyncdef"),
      DefLine("class"),
      BadLine,
      SurrogateLine }

SourcesUpTo(n) == UNION { [1..k -> LinePool] : k \in 0..n }

\* ------------------------------------------------------------ raw text
RECURSIVE ExprText(_)
ExprText(e) ==
    CASE e.t = "Name" -> <<e.id>>
      [] e.t = "StrD" -> <<"\"", e.id, "\"">>
      [] e.t = "StrS" -> <<"'", e.id, "'">>
      [] e.t = "Attribute" -> ExprText(e.kids[1]) \o <<".", e.id>>
      [] e.t = "Lambda" -> <<"lambda", ":", " ">> \o ExprText(e.kids[1])
      [] e.t = "Call" ->
            ExprText(e.kids[1]) \o <<"(">>
            \o JoinWith([i \in 1..(Len(e.kids) - 1) |-> ExprText(e.kids[i + 1])], <<",">>)
            \o <<")">>
      [] OTHER -> <<>>

PathText(path) == JoinWith([i \in 1..Len(path) |-> <<path[i]>>], <<".">>)

LineText(line) ==
    [i \in 1..line.indent |-> "  "] \o
    CASE line.k = "expr" -> ExprText(line.e)
      [] line.k = "assign" ->
            line.target \o (IF line.spaced THEN <<" ", "=", " ">> ELSE <<"=">>)
            \o ExprText(line.e)
      [] line.k = "import" ->
            <<"import", " ">>
            \o JoinWith([i \in 1..Len(line.mods) |-> PathText(line.mods[i])], <<",">>)
      [] line.k = "from" ->
            <<"from", " ">> \o [i \in 1..line.level |-> "."]
            \o (IF line.mods = <<>> THEN <<>> ELSE PathText(line.mods[1]))
            \o <<" ", "import", " ", "y">>
      [] line.k = "def" -> <<"def", " ", "f", "(", ")", ":">>
      [] line.k = "asyncdef" -> <<"async", " ", "def", " ", "f", "(", ")", ":">>
      [] line.k = "class" -> <<"class", " ", "A", ":">>
      [] line.k = "bad" -> <<"def", " ", "f", "(", ":">>
      [] line.k = "surrogate" -> <<"x", " ", "=", " ", "\"", "U+D800", "\"">>
      [] OTHER -> <<>>

\* ------------------------------------------------------------ ast.parse
Node(t, id, lineno, kids, mods) ==
    [t |-> t, id |-> id, lineno |-> lineno, kids |-> kids, mods |-> mods]

RECURSIVE ExprNode(_, _)
ExprNode(e, lineno) ==
    Node(IF e.t \in {"StrD", "StrS"} THEN "Constant" ELSE e.t, e.id, lineno,
         [i \in 1..Len(e.kids) |-> ExprNode(e.kids[i], lineno)], <<>>)

StmtNode(line, lineno) ==
    CASE line.k = "expr" ->
            Node("Expr", "", lineno, <<ExprNode(line.e, lineno)>>, <<>>)
      [] line.k = "assign" ->
            Node("Assign", "", lineno,
                 <<Node("Name", "target", lineno, <<>>, <<>>),
                   ExprNode(line.e, lineno)>>, <<>>)
      [] line.k = "import" -> Node("Import", "", lineno, <<>>, line.mods)
      [] line.k = "from" -> Node("ImportFrom", "", lineno, <<>>, line.mods)

CompoundType(k) ==
    CASE k = "def" -> "FunctionDef"
      [] k = "asyncdef" -> "AsyncFunctionDef"
      [] k = "class" -> "ClassDef"

Block(err, body, next) == [err |-> err, body |-> body, next |-> next]

\* statements of one indentation level, from line i on; err is the line the
\* parser reports (0: none)
RECURSIVE ParseBlock(_, _, _)
ParseBlock(src, i, ind) ==
    IF i > Len(src) \/ src[i].indent < ind THEN Block(0, <<>>, i)
    ELSE IF src[i].indent > ind \/ src[i].k = "bad" THEN Block(i, <<>>, i)
    ELSE IF src[i].k \in {"def", "asyncdef", "class"} THEN
        IF i + 1 > Len(src) THEN Block(i, <<>>, i)
        ELSE IF src[i + 1].indent <= ind THEN Block(i + 1, <<>>, i)
        ELSE LET sub == ParseBlock(src, i + 1, src[i + 1].indent) IN
             IF sub.err # 0 THEN sub
             ELSE LET rest == ParseBlock(src, sub.next, ind) IN
                  IF rest.err # 0 THEN rest
                  ELSE Block(0, <<Node(CompoundType(src[i].k), "f", i, sub.body, <<>>)>>
                                \o rest.body, rest.next)
    ELSE LET rest == ParseBlock(src, i + 1, ind) IN
         IF rest.err # 0 THEN rest
         ELSE Block(0, <<StmtNode(src[i], i)>> \o rest.body, rest.next)

\* ast.parse(code): a tree, a SyntaxError with its lineno, or another exception
Parse(src) ==
    IF \E i \in 1..Len(src) : src[i].k = "surrogate"
    THEN [status |-> "UnicodeEncodeError", lineno |-> 0,
          tree |-> Node("Module", "", 0, <<>>, <<>>)]
    ELSE LET b == ParseBlock(src, 1, 0) IN
         IF b.err # 0
         THEN [status |-> "SyntaxError", lineno |-> b.err,
               tree |-> Node("Module", "", 0, <<>>, <<>>)]
         ELSE [status |-> "ok", lineno |-> 0,
               tree |-> Node("Module", "", 0, b.body, <<>>)]

\* =========================================================================
\*  Python library operations used by the policy engine
\*  (strings are sequences of one-character strings)
\* =========================================================================
\* str.lower() on one character
Lower(c) ==
    CASE c = "R" -> "r" [] c = "M" -> "m" [] c = "F" -> "f" [] c = "H" -> "h"
      [] c = "T" -> "t" [] c = "P" -> "p" [] c = "E" -> "e" [] c = "C" -> "c"
      [] c = "L" -> "l" [] c = "S" -> "s" [] c = "X" -> "x" [] c = "D" -> "d"
      [] OTHER -> c

LowerStr(str) == [i \in 1..Len(str) |-> Lower(str[i])]

Whitespace == {" ", "\t", "\n"}
Digits == {"0", "1", "2", "3", "4", "5", "6", "7", "8", "9"}

\* ---- re: the pattern language as sre_parse reads it ----------------------
Re(op, c, kids) == [op |-> op, c |-> c, kids |-> kids]
ReAt(node, next) == [node |-> node, next |-> next]

RECURSIVE RegexAlt(_, _), RegexSeq(_, _), RegexItem(_, _), RegexAtom(_, _)

\* one atom starting at p[i]: an escape, a group, `.`, or a literal
RegexAtom(p, i) ==
    IF p[i] = "\\" /\ i < Len(p) THEN
        ReAt(CASE p[i + 1] = "s" -> Re("space", "", <<>>)
                  [] p[i + 1] = "d" -> Re("digit", "", <<>>)
                  [] OTHER -> Re("lit", p[i + 1], <<>>),
                i + 2)
    ELSE IF p[i] = "(" THEN
        LET inner == RegexAlt(p, i + 1) IN ReAt(inner.node, inner.next + 1)
    ELSE IF p[i] = "." THEN ReAt(Re("any", "", <<>>), i + 1)
    ELSE ReAt(Re("lit", p[i], <<>>), i + 1)

\* an atom and the repeat operator that follows it
RegexItem(p, i) ==
    LET atom == RegexAtom(p, i) IN
    IF atom.next <= Len(p) /\ p[atom.next] \in {"*", "+", "?"}
    THEN ReAt(Re(p[atom.next], "", <<atom.node>>), atom.next + 1)
    ELSE atom

\* items up to the next `|`, `)` or the end of the pattern
RegexSeq(p, i) ==
    IF i > Len(p) \/ p[i] \in {"|", ")"} THEN ReAt(Re("seq", "", <<>>), i)
    ELSE LET item == RegexItem(p, i)
             rest == RegexSeq(p, item.next)
         IN ReAt(Re("seq", "", <<item.node>> \o rest.node.kids), rest.next)

\* branches separated by `|`
RegexAlt(p, i) ==
    LET first == RegexSeq(p, i) IN
    IF first.next <= Len(p) /\ p[first.next] = "|"
    THEN LET rest == RegexAlt(p, first.next + 1)
         IN ReAt(Re("alt", "", <<first.node, rest.node>>), rest.next)
    ELSE first

\* re.compile(pattern)
Compile(p) == RegexAlt(p, 1).node

\* ---- re: matching ----------------------------------------------------------
RECURSIVE Ends(_, _, _, _), SeqEnds(_, _, _, _, _), StarEnds(_, _, _, _, _)

\* positions where a match of node n that starts after s[1..i] can end
Ends(n, s, i, ignorecase) ==
    CASE n.op = "lit" ->
            IF i < Len(s) /\ (s[i + 1] = n.c
                              \/ (ignorecase /\ Lower(s[i + 1]) = Lower(n.c)))
            THEN {i + 1} ELSE {}
      [] n.op = "any" -> IF i < Len(s) /\ s[i + 1] # "\n" THEN {i + 1} ELSE {}
      [] n.op = "space" -> IF i < Len(s) /\ s[i + 1] \in Whitespace THEN {i + 1} ELSE {}
      [] n.op = "digit" -> IF i < Len(s) /\ s[i + 1] \in Digits THEN {i + 1} ELSE {}
      [] n.op = "seq" -> SeqEnds(n.kids, 1, s, {i}, ignorecase)
      [] n.op = "alt" -> Ends(n.kids[1], s, i, ignorecase) \cup Ends(n.kids[2], s, i, ignorecase)
      [] n.op = "*" -> StarEnds(n.kids[1], s, {i}, {i}, ignorecase)
      [] n.op = "+" ->
            LET once == Ends(n.kids[1], s, i, ignorecase)
            IN StarEnds(n.kids[1], s, once, once, ignorecase)
      [] n.op = "?" -> {i} \cup Ends(n.kids[1], s, i, ignorecase)

SeqEnds(kids, k, s, from, ignorecase) ==
    IF k > Len(kids) \/ from = {} THEN from
    ELSE SeqEnds(kids, k + 1, s,
                 UNION { Ends(kids[k], s, i, ignorecase) : i \in from }, ignorecase)

StarEnds(n, s, frontier, seen, ignorecase) ==
    IF frontier = {} THEN seen
    ELSE LET new == (UNION { Ends(n, s, i, ignorecase) : i \in frontier }) \ seen
         IN StarEnds(n, s, new, seen \cup new, ignorecase)

\* re.search(pattern, string[, re.IGNORECASE]) is not None
Search(pattern, string, ignorecase) ==
    \E i \in 0..Len(string) : Ends(Compile(pattern), string, i, ignorecase) # {}

\* =========================================================================
\*  Static Source Validator (validate_code.py)
\* =========================================================================
FORBIDDEN_CALLS ==
    { "eval", "exec", "compile", "__import__",
      "open", "file", "input", "raw_input",
      "system", "popen", "subprocess" }

ALLOWED_IMPORTS ==
    { "langgraph", "langchain", "langchain_core", "langchain_community",
      "pydantic", "deepagents",
      "json", "os", "sys", "asyncio", "logging", "typing",
      "datetime", "dataclasses", "functools", "itertools",
      "pathlib", "tempfile", "shutil",
      "requests", "aiohttp", "redis",
      "tenacity", "dotenv" }

\* a diagnostic: the message kind, the line it cites, and the call name or
\* the module path it cites
Diag(msg, line, id, mod) == [msg |-> msg, line |-> line, id |-> id, mod |-> mod]

\* storage of a validator instance before __init__ has run on it
NoValidator ==
    [errors |-> <<>>, warnings |-> <<>>, imports |-> <<>>,
     in_function_def |-> FALSE, depth |-> 0]

SecurityValidator_init_keep_errors(self) ==
    [self EXCEPT !.warnings = <<>>, !.imports = <<>>,
                 !.in_function_def = FALSE, !.depth = 0]

SecurityValidator_init(self) ==
    [self EXCEPT !.errors = <<>>, !.warnings = <<>>, !.imports = <<>>,
                 !.in_function_def = FALSE, !.depth = 0]

\* alias.name.split('.')[0]
RootSegment(path) == path[1]

RECURSIVE visit(_, _), generic_visit(_, _), VisitEach(_, _, _)
RECURSIVE visit_Call(_, _), visit_FunctionDef(_, _)

\* for item in value: self.visit(item)
VisitEach(self, kids, i) ==
    IF i > Len(kids) THEN self
    ELSE VisitEach(visit(self, kids[i]), kids, i + 1)

generic_visit(self, node) == VisitEach(self, node.kids, 1)

FlagCall(self, node) ==
    IF node.kids[1].t = "Name" /\ node.kids[1].id \in FORBIDDEN_CALLS
    THEN [self EXCEPT !.errors = Append(@,
              Diag("Forbidden function call", node.lineno, node.kids[1].id, <<>>))]
    ELSE self

visit_Call_no_descent(self, node) == FlagCall(self, node)

visit_Call_flag_methods(self, node) ==
    generic_visit(
        IF node.kids[1].t \in {"Name", "Attribute"}
           /\ node.kids[1].id \in FORBIDDEN_CALLS
        THEN [self EXCEPT !.errors = Append(@,
                  Diag("Forbidden function call", node.lineno, node.kids[1].id, <<>>))]
        ELSE self,
        node)

visit_Call(self, node) == generic_visit(FlagCall(self, node), node)

RECURSIVE ImportAliases(_, _, _)
ImportAliases(self, node, i) ==
    IF i > Len(node.mods) THEN self
    ELSE LET name == node.mods[i]
             s1 == [self EXCEPT !.imports = Append(@, name)]
             s2 == IF RootSegment(name) \notin ALLOWED_IMPORTS
                   THEN [s1 EXCEPT !.errors = Append(@,
                            Diag("Unauthorized import", node.lineno, "", name))]
                   ELSE s1
         IN ImportAliases(s2, node, i + 1)

RECURSIVE ImportAliases_full_name(_, _, _)
ImportAliases_full_name(self, node, i) ==
    IF i > Len(node.mods) THEN self
    ELSE LET name == node.mods[i]
             s1 == [self EXCEPT !.imports = Append(@, name)]
             s2 == IF Len(name) # 1 \/ name[1] \notin ALLOWED_IMPORTS
                   THEN [s1 EXCEPT !.errors = Append(@,
                            Diag("Unauthorized import", node.lineno, "", name))]
                   ELSE s1
         IN ImportAliases_full_name(s2, node, i + 1)

visit_Import_full_name(self, node) ==
    generic_visit(ImportAliases_full_name(self, node, 1), node)

visit_Import(self, node) == generic_visit(ImportAliases(self, node, 1), node)

\* visit_ImportFrom recording the root segment instead of node.module
visit_ImportFrom_records_root(self, node) ==
    LET s2 == IF node.mods # <<>>
              THEN LET module == node.mods[1]
                       s1 == [self EXCEPT !.imports = Append(@, <<RootSegment(module)>>)]
                   IN IF RootSegment(module) \notin ALLOWED_IMPORTS
                      THEN [s1 EXCEPT !.errors = Append(@,
                               Diag("Unauthorized import from", node.lineno, "", module))]
                      ELSE s1
              ELSE self
    IN generic_visit(s2, node)

visit_ImportFrom(self, node) ==
    LET s2 == IF node.mods # <<>>
              THEN LET module == node.mods[1]
                       s1 == [self EXCEPT !.imports = Append(@, module)]
                   IN IF RootSegment(module) \notin ALLOWED_IMPORTS
                      THEN [s1 EXCEPT !.errors = Append(@,
                               Diag("Unauthorized import from", node.lineno, "", module))]
                      ELSE s1
              ELSE self
    IN generic_visit(s2, node)

\* visit_FunctionDef leaving the function body unvisited
visit_FunctionDef_skips_body(self, node) == self

visit_FunctionDef(self, node) ==
    LET old_in_func == self.in_function_def
        s1 == generic_visit([self EXCEPT !.in_function_def = TRUE], node)
    IN [s1 EXCEPT !.in_function_def = old_in_func]

visit_AsyncFunctionDef(self, node) == visit_FunctionDef(self, node)

\* ast.NodeVisitor.visit: dispatch on the node's class
visit(self, node) ==
    CASE node.t = "Call" -> visit_Call(self, node)
      [] node.t = "Import" -> visit_Import(self, node)
      [] node.t = "ImportFrom" -> visit_ImportFrom(self, node)
      [] node.t = "FunctionDef" -> visit_FunctionDef(self, node)
      [] node.t = "AsyncFunctionDef" -> visit_AsyncFunctionDef(self, node)
      [] OTHER -> generic_visit(self, node)

\* code.split("\n")
SplitLines(src) == [i \in 1..Len(src) |-> LineText(src[i])]

\* the secret patterns extended to single-quoted literals
SecretKeys_single_quotes ==
    { <<"api_key", " ", "=", " ", "\"">>,
      <<"token", " ", "=", " ", "\"">>,
      <<"password", " ", "=", " ", "\"">>,
      <<"api_key", " ", "=", " ", "'">>,
      <<"token", " ", "=", " ", "'">>,
      <<"password", " ", "=", " ", "'">> }

SecretKeys ==
    { <<"api_key", " ", "=", " ", "\"">>,
      <<"token", " ", "=", " ", "\"">>,
      <<"password", " ", "=", " ", "\"">> }

EnvLookups == { <<"os", ".", "getenv">>, <<"environ", ".", "get">> }

PrintExcludes == { <<"logging">>, <<"__name__">>, <<"argparse">> }

RECURSIVE SecretWarnings(_, _)
SecretWarnings(lines, i) ==
    IF i > Len(lines) THEN <<>>
    ELSE (IF /\ \E key \in SecretKeys : Contains(key, lines[i])
             /\ ~ \E substring \in EnvLookups : Contains(substring, lines[i])
          THEN <<Diag("Potential hardcoded secret detected", i, "", <<>>)>>
          ELSE <<>>)
         \o SecretWarnings(lines, i + 1)

RECURSIVE PrintWarnings(_, _)
PrintWarnings(lines, i) ==
    IF i > Len(lines) THEN <<>>
    ELSE (IF /\ StartsWith(Strip(lines[i]), <<"print", "(">>)
             /\ ~ \E exclude \in PrintExcludes : Contains(exclude, lines[i])
          THEN <<Diag("Use logging instead of print()", i, "", <<>>)>>
          ELSE <<>>)
         \o PrintWarnings(lines, i + 1)

ValidationResult(valid, errors, warnings, imports_found) ==
    [status |-> "returned", exc |-> "", valid |-> valid, errors |-> errors,
     warnings |-> warnings, imports_found |-> imports_found]

Raised(exc) ==
    [status |-> "raised", exc |-> exc, valid |-> FALSE, errors |-> <<>>,
     warnings |-> <<>>, imports_found |-> <<>>]

NoResult ==
    [status |-> "none", exc |-> "", valid |-> FALSE, errors |-> <<>>,
     warnings |-> <<>>, imports_found |-> <<>>]

\* the final status line: valid = len(errors) == 0
FinalStatus_counts_warnings(errors, warnings) == Len(errors) = 0 /\ Len(warnings) = 0

FinalStatus(errors, warnings) == Len(errors) = 0

\* the `except SyntaxError` branch
SyntaxErrorResult_scans_lines(src, parsed) ==
    ValidationResult(FALSE, <<Diag("Syntax error", parsed.lineno, "", <<>>)>>,
                     SecretWarnings(SplitLines(src), 1) \o PrintWarnings(SplitLines(src), 1),
                     <<>>)

SyntaxErrorResult(src, parsed) ==
    ValidationResult(FALSE, <<Diag("Syntax error", parsed.lineno, "", <<>>)>>, <<>>, <<>>)

\* validate_python_code(code), run with the instance storage `self`;
\* yields the outcome and the storage the call leaves behind
validate_python_code(self, src) ==
    LET parsed == Parse(src) IN
    IF parsed.status = "SyntaxError"
    THEN [res |-> SyntaxErrorResult(src, parsed), self |-> self]
    ELSE IF parsed.status # "ok"
    THEN [res |-> Raised(parsed.status), self |-> self]
    ELSE LET validator == visit(SecurityValidator_init(self), parsed.tree)
             errors == validator.errors
             imports == validator.imports
             lines == SplitLines(src)
             warnings == validator.warnings
                         \o SecretWarnings(lines, 1)
                         \o PrintWarnings(lines, 1)
                         \o (IF imports = <<>>
                             THEN <<Diag("No imports detected", 0, "", <<>>)>>
                             ELSE <<>>)
         IN [res |-> ValidationResult(FinalStatus(errors, warnings),
                                      errors, warnings, imports),
             self |-> validator]

\* =========================================================================
\*  Capability Policy Engine (generate-agent-enhanced.py, SecurityValidator)
\* =========================================================================
\* parameter values: a str (its characters and its UTF-8 size), or a value
\* of another type; a large payload is given by its size alone
Str(s) == [ty |-> "str", s |-> s, bytes |-> Len(s)]
Payload(n) == [ty |-> "str", s |-> <<>>, bytes |-> n]
IntVal == [ty |-> "int", s |-> <<>>, bytes |-> 0]
NoneVal == [ty |-> "none", s |-> <<>>, bytes |-> 0]

\* params.get(key, '')
Get(parameters, key) ==
    IF key \in DOMAIN parameters THEN parameters[key] ELSE Str(<<>>)

BlockedPaths ==
    << <<"/", "e", "t", "c", "/">>,
       <<"/", "p", "r", "o", "c", "/">>,
       <<"/", "s", "y", "s", "/">>,
       <<"/", "r", "o", "o", "t", "/">>,
       <<"~", "/", ".", "s", "s", "h">>,
       <<"~", "/", ".", "g", "n", "u", "p", "g">> >>

SearchBlockedPatterns ==
    << <<"/", "e", "t", "c", "/">>,
       <<"/", "p", "r", "o", "c", "/">>,
       <<"/", "s", "y", "s", "/">>,
       <<"~", "/", ".", "s", "s", "h">>,
       <<"~", "/", ".", "g", "n", "u", "p", "g">>,
       <<"/", "r", "o", "o", "t", "/">> >>

CommandBlockedPatterns ==
    << <<"r", "m", "\\", "\\", "s", "+", "-", "r", "f">>,
       <<"d", "d", "\\", "\\", "s", "+", "i", "f", "=">>,
       <<":", "\\", "\\", "(", "\\", "\\", ")", "\\", "\\", "{">>,
       <<"c", "h", "m", "o", "d", "\\", "\\", "s", "+", "\\", "\\", "d", "+", "\\", "\\", "s", "+", "/">>,
       <<">", "\\", "\\", "s", "*", "/", "d", "e", "v", "/", "s", "d">>,
       <<"w", "g", "e", "t", ".", "*", "\\", "\\", "|">>,
       <<"c", "u", "r", "l", ".", "*", "\\", "\\", "|">> >>

policies ==
    [ search_files |->
        [ allowed_paths |-> << <<".">>,
             <<".", "/", "w", "o", "r", "k", "s", "p", "a", "c", "e">>,
             <<".", "/", "p", "r", "o", "j", "e", "c", "t">>,
             <<".", "/", "s", "r", "c">> >>,
          blocked_patterns |-> SearchBlockedPatterns,
          max_file_size |-> 10 * 1024 * 1024,
          timeout |-> 30,
          require_safe_paths |-> TRUE ],
      read_file |->
        [ allowed_extensions |-> << <<".", "p", "y">>,
             <<".", "m", "d">>,
             <<".", "t", "x", "t">>,
             <<".", "j", "s", "o", "n">>,
             <<".", "y", "a", "m", "l">>,
             <<".", "y", "m", "l">>,
             <<".", "j", "s">>,
             <<".", "t", "s">>,
             <<".", "j", "a", "v", "a">>,
             <<".", "c", "p", "p">>,
             <<".", "c">>,
             <<".", "h">> >>,
          blocked_paths |-> BlockedPaths,
          max_file_size |-> 5 * 1024 * 1024,
          timeout |-> 10,
          require_safe_paths |-> TRUE ],
      browser_navigate |->
        [ allowed_schemes |-> << <<"h", "t", "t", "p">>,
             <<"h", "t", "t", "p", "s">> >>,
          blocked_domains |-> << <<"l", "o", "c", "a", "l", "h", "o", "s", "t">>,
             <<"1", "2", "7", ".", "0", ".", "0", ".", "1">>,
             <<"0", ".", "0", ".", "0", ".", "0">>,
             <<"f", "i", "l", "e", ":", "/", "/">>,
             <<"i", "n", "t", "e", "r", "n", "a", "l">> >>,
          timeout |-> 45,
          max_redirects |-> 5,
          require_https |-> FALSE ],
      execute_command |->
        [ allowed_commands |-> << <<"l", "s">>,
             <<"e", "c", "h", "o">>,
             <<"c", "a", "t">>,
             <<"g", "r", "e", "p">>,
             <<"f", "i", "n", "d">>,
             <<"p", "w", "d">>,
             <<"w", "h", "i", "c", "h">>,
             <<"h", "e", "a", "d">>,
             <<"t", "a", "i", "l">> >>,
          blocked_patterns |-> CommandBlockedPatterns,
          timeout |-> 60,
          max_output_size |-> 1024 * 1024,
          allow_sudo |-> FALSE,
          require_shell |-> FALSE ],
      write_to_file |->
        [ allowed_directories |-> << <<".">>,
             <<".", "/", "w", "o", "r", "k", "s", "p", "a", "c", "e">>,
             <<".", "/", "p", "r", "o", "j", "e", "c", "t">>,
             <<".", "/", "o", "u", "t", "p", "u", "t">>,
             <<".", "/", "t", "e", "m", "p">> >>,
          blocked_paths |-> BlockedPaths,
          max_file_size |-> 10 * 1024 * 1024,
          create_backup |-> TRUE,
          timeout |-> 30,
          require_safe_paths |-> TRUE ] ]

default_policy ==
    [ timeout |-> 30, max_attempts |-> 3, require_validation |-> TRUE,
      logging_level |-> "INFO" ]

\* policies.get(tool_name, default_policy)
generate_security_policy(tool_name) ==
    IF tool_name \in DOMAIN policies THEN policies[tool_name] ELSE default_policy

Elems(seq) == { seq[i] : i \in 1..Len(seq) }

NoReason == [kind |-> "", val |-> <<>>, n |-> 0]
Reason(kind, val, n) == [kind |-> kind, val |-> val, n |-> n]

Decision(allowed, reason, warnings) ==
    [status |-> "returned", exc |-> "", allowed |-> allowed, reason |-> reason,
     warnings |-> warnings]

RaisedDecision(exc) ==
    [status |-> "raised", exc |-> exc, allowed |-> FALSE, reason |-> NoReason,
     warnings |-> <<>>]

NoDecision ==
    [status |-> "none", exc |-> "", allowed |-> FALSE, reason |-> NoReason,
     warnings |-> <<>>]

\* the first pattern of the list that re.search finds in the string (0: none)
FirstMatch(patterns, string, ignorecase) ==
    IF \E k \in 1..Len(patterns) : Search(patterns[k], string, ignorecase)
    THEN CHOOSE k \in 1..Len(patterns) :
            /\ Search(patterns[k], string, ignorecase)
            /\ \A j \in 1..(k - 1) : ~ Search(patterns[j], string, ignorecase)
    ELSE 0

\* ---- pathlib.Path(p).suffix --------------------------------------------
RECURSIVE SplitOn(_, _, _)
\* str.split(sep) for a one-character separator; cur is the piece in progress
SplitOn(str, sep, cur) ==
    IF str = <<>> THEN <<cur>>
    ELSE IF Head(str) = sep THEN <<cur>> \o SplitOn(Tail(str), sep, <<>>)
    ELSE SplitOn(Tail(str), sep, Append(cur, Head(str)))

\* the components pathlib keeps: empty and `.` components are dropped
PathParts(p) == SelectSeq(SplitOn(p, "/", <<>>), LAMBDA part : part # <<>> /\ part # <<".">>)

PathName(p) == IF PathParts(p) = <<>> THEN <<>> ELSE PathParts(p)[Len(PathParts(p))]

\* name.rfind('.')  (1-based; 0: not found)
RFindDot(name) ==
    IF \E i \in 1..Len(name) : name[i] = "."
    THEN CHOOSE i \in 1..Len(name) :
            name[i] = "." /\ \A j \in (i + 1)..Len(name) : name[j] # "."
    ELSE 0

PathSuffix(p) ==
    LET name == PathName(p)
        i == RFindDot(name)
    IN IF 1 < i /\ i < Len(name) THEN SubSeq(name, i, Len(name)) ELSE <<>>

\* ---- str.split()[0] ----------------------------------------------------
RECURSIVE TakeWord(_)
TakeWord(str) ==
    IF str = <<>> \/ Head(str) \in Whitespace THEN <<>>
    ELSE <<Head(str)>> \o TakeWord(Tail(str))

RECURSIVE DropSpace(_)
DropSpace(str) ==
    IF str # <<>> /\ Head(str) \in Whitespace THEN DropSpace(Tail(str)) ELSE str

\* command.split() is empty
SplitIsEmpty(str) == DropSpace(str) = <<>>
FirstWord(str) == TakeWord(DropSpace(str))

\* ---- urllib.parse.urlparse ---------------------------------------------
SchemeChars ==
    { "a", "b", "c", "d", "e", "f", "g", "h", "i", "j", "k", "l", "m", "n", "o",
      "p", "q", "r", "s", "t", "u", "v", "w", "x", "y", "z",
      "C", "E", "F", "H", "L", "M", "P", "R", "S", "T", "+", "-", "." } \cup Digits

Alpha == SchemeChars \ (Digits \cup {"+", "-", "."})

\* url.find(c)  (1-based; 0: not found)
Find(str, cs) ==
    IF \E i \in 1..Len(str) : str[i] \in cs
    THEN CHOOSE i \in 1..Len(str) : str[i] \in cs /\ \A j \in 1..(i - 1) : str[j] \notin cs
    ELSE 0

UrlResult(status, scheme, netloc, isbytes) ==
    [status |-> status, scheme |-> scheme, netloc |-> netloc, isbytes |-> isbytes]

\* urlparse(url): a str gives scheme and netloc; None parses as bytes with
\* an empty scheme; other types and unbalanced brackets raise
urlparse(url) ==
    IF url.ty = "none" THEN UrlResult("ok", <<>>, <<>>, TRUE)
    ELSE IF url.ty # "str" THEN UrlResult("AttributeError", <<>>, <<>>, FALSE)
    ELSE LET u0 == SelectSeq(LStrip(url.s), LAMBDA c : c \notin {"\t", "\n"})
             i == Find(u0, {":"})
             hasScheme == /\ i > 1
                          /\ u0[1] \in Alpha
                          /\ \A j \in 1..(i - 1) : u0[j] \in SchemeChars
             scheme == IF hasScheme THEN LowerStr(SubSeq(u0, 1, i - 1)) ELSE <<>>
             u1 == IF hasScheme THEN SubSeq(u0, i + 1, Len(u0)) ELSE u0
             hasNetloc == StartsWith(u1, <<"/", "/">>)
             u2 == SubSeq(u1, 3, Len(u1))
             delim == Find(u2, {"/", "?", "#"})
             netloc == IF ~ hasNetloc THEN <<>>
                       ELSE IF delim = 0 THEN u2 ELSE SubSeq(u2, 1, delim - 1)
         IN IF ("[" \in Elems(netloc)) # ("]" \in Elems(netloc))
            THEN UrlResult("ValueError", <<>>, <<>>, FALSE)
            ELSE UrlResult("ok", scheme, netloc, FALSE)

\* ---- the tool-specific validators ---------------------------------------
validate_read_file(parameters, policy, result) ==
    LET file_path == Get(parameters, "path") IN
    IF file_path.ty # "str" THEN RaisedDecision("TypeError")
    ELSE IF FirstMatch(policy.blocked_paths, file_path.s, FALSE) # 0
    THEN [result EXCEPT !.allowed = FALSE,
                        !.reason = Reason("Access to path blocked by policy", file_path.s, 0)]
    ELSE IF "allowed_extensions" \in DOMAIN policy
    THEN LET ext == LowerStr(PathSuffix(file_path.s)) IN
         IF ext \notin Elems(policy.allowed_extensions)
         THEN [result EXCEPT !.warnings = Append(@,
                  Reason("File extension may not be supported", ext, 0))]
         ELSE result
    ELSE result

\* validate_write_file denying oversize content without stating a reason
validate_write_file_no_size_reason(parameters, policy, result) ==
    LET file_path == Get(parameters, "path")
        content == Get(parameters, "content")
    IN
    IF file_path.ty # "str" THEN RaisedDecision("TypeError")
    ELSE IF FirstMatch(policy.blocked_paths, file_path.s, FALSE) # 0
    THEN [result EXCEPT !.allowed = FALSE,
                        !.reason = Reason("Write to path blocked by policy", file_path.s, 0)]
    ELSE IF content.ty # "str" THEN RaisedDecision("AttributeError")
    ELSE IF content.bytes > policy.max_file_size
    THEN [result EXCEPT !.allowed = FALSE]
    ELSE result

validate_write_file(parameters, policy, result) ==
    LET file_path == Get(parameters, "path")
        content == Get(parameters, "content")
    IN
    IF file_path.ty # "str" THEN RaisedDecision("TypeError")
    ELSE IF FirstMatch(policy.blocked_paths, file_path.s, FALSE) # 0
    THEN [result EXCEPT !.allowed = FALSE,
                        !.reason = Reason("Write to path blocked by policy", file_path.s, 0)]
    ELSE IF content.ty # "str" THEN RaisedDecision("AttributeError")
    ELSE IF content.bytes > policy.max_file_size
    THEN [result EXCEPT !.allowed = FALSE,
                        !.reason = Reason("Content too large", <<>>, policy.max_file_size)]
    ELSE result

validate_execute_command(parameters, policy, result) ==
    LET command == Get(parameters, "command") IN
    IF command.ty # "str" THEN RaisedDecision("TypeError")
    ELSE LET k == FirstMatch(policy.blocked_patterns, command.s, TRUE) IN
    IF k # 0
    THEN [result EXCEPT !.allowed = FALSE,
                        !.reason = Reason("Command blocked by security policy",
                                          policy.blocked_patterns[k], 0)]
    ELSE IF "allowed_commands" \in DOMAIN policy
    THEN IF SplitIsEmpty(command.s) THEN RaisedDecision("IndexError")
         ELSE LET cmd_start == LowerStr(FirstWord(command.s)) IN
              IF cmd_start \notin Elems(policy.allowed_commands)
              THEN [result EXCEPT !.warnings = Append(@,
                       Reason("Command not in allowed list", cmd_start, 0))]
              ELSE result
    ELSE result

validate_browser_navigate(parameters, policy, result) ==
    LET url == Get(parameters, "url")
        parsed == urlparse(url)
    IN
    IF parsed.status # "ok"
    THEN [result EXCEPT !.allowed = FALSE,
                        !.reason = Reason("Invalid URL format", <<>>, 0)]
    ELSE IF parsed.isbytes \/ parsed.scheme \notin Elems(policy.allowed_schemes)
    THEN [result EXCEPT !.allowed = FALSE,
                        !.reason = Reason("URL scheme not allowed", parsed.scheme, 0)]
    ELSE IF \E k \in 1..Len(policy.blocked_domains) :
                Contains(policy.blocked_domains[k], parsed.netloc)
    THEN [result EXCEPT !.allowed = FALSE,
                        !.reason = Reason("Access to domain blocked", parsed.netloc, 0)]
    ELSE result

\* validate_tool_call indexing the policy table instead of falling back to
\* the default policy
validate_tool_call_strict_lookup(tool_name, parameters) ==
    IF tool_name \notin DOMAIN policies THEN RaisedDecision("KeyError")
    ELSE
    LET policy == generate_security_policy(tool_name)
        validation_result == Decision(TRUE, NoReason, <<>>)
    IN CASE tool_name = "read_file" ->
                validate_read_file(parameters, policy, validation_result)
         [] tool_name = "write_to_file" ->
                validate_write_file(parameters, policy, validation_result)
         [] tool_name = "execute_command" ->
                validate_execute_command(parameters, policy, validation_result)
         [] tool_name = "browser_navigate" ->
                validate_browser_navigate(parameters, policy, validation_result)
         [] OTHER -> validation_result

validate_tool_call(tool_name, parameters) ==
    LET policy == generate_security_policy(tool_name)
        validation_result == Decision(TRUE, NoReason, <<>>)
    IN CASE tool_name = "read_file" ->
                validate_read_file(parameters, policy, validation_result)
         [] tool_name = "write_to_file" ->
                validate_write_file(parameters, policy, validation_result)
         [] tool_name = "execute_command" ->
                validate_execute_command(parameters, policy, validation_result)
         [] tool_name = "browser_navigate" ->
                validate_browser_navigate(parameters, policy, validation_result)
         [] OTHER -> validation_result

\* ------------------------------------------------------------ actions
NoCall == [code |-> <<>>, res |-> NoResult, other |-> FALSE]

IdleToolCall ==
    /\ tool = "none"
    /\ params = <<>>
    /\ decision = NoDecision

NoValidation ==
    [status |-> "none", level |-> "", validations |-> <<>>, warnings |-> <<>>,
     compatibility_issues |-> <<>>, recommendations |-> <<>>]

IdleClassifier ==
    /\ tools = <<>>
    /\ security_level = "medium"
    /\ failed = {}
    /\ validation_results = NoValidation

IdleCalls ==
    /\ calls = <<>>
    /\ results = <<>>

NoWorkflow == [pc |-> "none", i |-> 0, retry_count |-> 0, attempts |-> <<>>]

IdleWorkflow ==
    /\ workflow_steps = <<>>
    /\ wresults = <<>>
    /\ wf = NoWorkflow

NoAgent ==
    [pc |-> "none", baseline_passed |-> "unset", features |-> <<>>,
     max_count |-> 0, phases |-> <<>>, features0 |-> <<>>, progress0 |-> <<>>,
     verified |-> FALSE]

IdleAgent ==
    /\ features_json = <<>>
    /\ progress_file = <<>>
    /\ agent = NoAgent

\* one validation of one source text
InitValidate ==
    /\ code \in SourcesUpTo(MaxLines)
    /\ vself = NoValidator
    /\ vres = NoResult
    /\ vprev = NoCall
    /\ IdleToolCall
    /\ IdleClassifier
    /\ IdleCalls
    /\ IdleWorkflow
    /\ IdleAgent

Validate ==
    /\ vres.status = "none"
    /\ \E out \in {validate_python_code(vself, code)} :
        /\ vres' = out.res
        /\ vself' = out.self
    /\ UNCHANGED <<code, vprev, tool, params, decision, classifierVars, callVars, workflowVars, agentVars>>

NextValidate == Validate

SpecValidate == InitValidate /\ [][NextValidate]_vars

\* repeated validations in one process: any text, in any order
SeqPool ==
    { ExprLine(0, ECall(EName("eval"), <<EName("x")>>)),
      ExprLine(0, ECall(EName("print"), <<ECall(EName("open"), <<EName("f")>>)>>)),
      FromLine(0, <<<<"langgraph", "prebuilt">>>>),
      ImportLine(<<<<"os">>, <<"foo", "bar">>>>),
      AssignLine(<<"api_key">>, TRUE, EStrD("sk")),
      BadLine,
      SurrogateLine }

SeqSources == UNION { [1..k -> SeqPool] : k \in 0..MaxSeqLines }

InitRevalidate ==
    /\ code = <<>>
    /\ vself = NoValidator
    /\ vres = NoResult
    /\ vprev = NoCall
    /\ IdleToolCall
    /\ IdleClassifier
    /\ IdleCalls
    /\ IdleWorkflow
    /\ IdleAgent

\* the first call of the process is remembered; `other` records that a
\* different text has been validated since
Revalidate(src) ==
    /\ \E out \in {validate_python_code(vself, src)} :
        /\ vres' = out.res
        /\ vself' = out.self
        /\ vprev' = IF vprev.res.status = "none"
                    THEN [code |-> src, res |-> out.res, other |-> FALSE]
                    ELSE [vprev EXCEPT !.other = @ \/ src # vprev.code]
    /\ code' = src
    /\ UNCHANGED <<tool, params, decision, classifierVars, callVars, workflowVars, agentVars>>

NextRevalidate == \E src \in SeqSources : Revalidate(src)

SpecRevalidate == InitRevalidate /\ [][NextRevalidate]_vars

\* =========================================================================
\*  Properties of the Static Source Validator
\* =========================================================================
\* names of the calls in an expression whose target is a plain identifier
RECURSIVE BareCallNames(_)
BareCallNames(e) ==
    (IF e.t = "Call" /\ e.kids[1].t = "Name" THEN {e.kids[1].id} ELSE {})
    \cup UNION { BareCallNames(e.kids[i]) : i \in 1..Len(e.kids) }

\* names of the calls in an expression whose target is an attribute access
RECURSIVE MethodCallNames(_)
MethodCallNames(e) ==
    (IF e.t = "Call" /\ e.kids[1].t = "Attribute" THEN {e.kids[1].id} ELSE {})
    \cup UNION { MethodCallNames(e.kids[i]) : i \in 1..Len(e.kids) }

ForbiddenNames ==
    { "eval", "exec", "compile", "__import__", "open", "file", "input",
      "raw_input", "system", "popen", "subprocess" }

Validated == vres.status # "none"
Parsed == Parse(code).status = "ok"
Returned == vres.status = "returned"

HasError(msgs, line, id, mod) ==
    \E k \in 1..Len(vres.errors) :
        /\ vres.errors[k].msg \in msgs
        /\ vres.errors[k].line = line
        /\ vres.errors[k].id = id
        /\ vres.errors[k].mod = mod

\* C1: a parsed source with a forbidden bare call at line L gets a result
\* whose errors cite line L and the called name, and valid is false.
C1_ForbiddenBareCallFlagged ==
    (Validated /\ Parsed) =>
        \A L \in 1..Len(code) :
            \A name \in BareCallNames(code[L].e) \cap ForbiddenNames :
                /\ Returned
                /\ ~ vres.valid
                /\ HasError({"Forbidden function call"}, L, name, <<>>)

\* a forbidden call nested in the arguments of another call, or in a
\* function body, has been validated
C1_Witness ==
    /\ Returned /\ Parsed
    /\ \E L \in 1..Len(code) :
        /\ code[L].e.t = "Call"
        /\ \E i \in 2..Len(code[L].e.kids) :
              BareCallNames(code[L].e.kids[i]) \cap ForbiddenNames # {}
    /\ ~ vres.valid

\* C2: a call through an attribute access adds no error, whatever the
\* attribute's name; every forbidden-call error belongs to a call on that
\* line whose target is a plain identifier.
C2_MethodCallsNotFlagged ==
    (Validated /\ Parsed) =>
        \A k \in 1..Len(vres.errors) :
            vres.errors[k].msg = "Forbidden function call" =>
                vres.errors[k].id \in BareCallNames(code[vres.errors[k].line].e)

\* a source calling obj.compile() has been validated
C2_Witness ==
    /\ Returned /\ Parsed
    /\ \E L \in 1..Len(code) :
          MethodCallNames(code[L].e) \cap ForbiddenNames # {}
          /\ BareCallNames(code[L].e) \cap ForbiddenNames = {}
    /\ \A k \in 1..Len(vres.errors) : vres.errors[k].msg # "Forbidden function call"

ImportMsgs == {"Unauthorized import", "Unauthorized import from"}

\* C3: an import error citing the declaration's line and the full module
\* path exists exactly when the path's root segment is not allow-listed, and
\* an unauthorized import makes valid false.
C3_ImportErrorIffRootNotAllowed ==
    (Validated /\ Parsed) =>
        \A L \in 1..Len(code) :
            code[L].k \in {"import", "from"} =>
                \A i \in 1..Len(code[L].mods) :
                    LET path == code[L].mods[i] IN
                    /\ HasError(ImportMsgs, L, "", path) <=> path[1] \notin ALLOWED_IMPORTS
                    /\ path[1] \notin ALLOWED_IMPORTS => (Returned /\ ~ vres.valid)

\* an allow-listed root's submodule passes next to an unauthorized import
C3_Witness ==
    /\ Returned /\ Parsed
    /\ \E L \in 1..Len(code) : \E i \in 1..Len(code[L].mods) :
          /\ Len(code[L].mods[i]) > 1
          /\ code[L].mods[i][1] \in ALLOWED_IMPORTS
          /\ ~ HasError(ImportMsgs, L, "", code[L].mods[i])
    /\ \E L \in 1..Len(code) : \E i \in 1..Len(code[L].mods) :
          /\ code[L].mods[i][1] \notin ALLOWED_IMPORTS
          /\ HasError(ImportMsgs, L, "", code[L].mods[i])
    /\ ~ vres.valid

\* C4: every returned result has valid = (errors is empty), on the
\* parse-failure path and on the normal path, whatever the warnings.
C4_ValidIffNoErrors ==
    Returned => (vres.valid <=> Len(vres.errors) = 0)

\* a result with warnings and no errors has been returned
C4_Witness ==
    /\ Returned
    /\ Len(vres.warnings) >= 2
    /\ vres.errors = <<>>
    /\ vres.valid

\* C5: on a syntax error the result is exactly one error citing the line the
\* parser reports, valid false, no warnings and no imports.
C5_ParseFailureSingleError ==
    (Validated /\ Parse(code).status = "SyntaxError") =>
        /\ Returned
        /\ ~ vres.valid
        /\ Len(vres.errors) = 1
        /\ vres.errors[1].msg = "Syntax error"
        /\ vres.errors[1].line = Parse(code).lineno
        /\ vres.warnings = <<>>
        /\ vres.imports_found = <<>>

\* an unparsable text with a line the secret heuristic would flag
C5_Witness ==
    /\ Returned
    /\ Parse(code).status = "SyntaxError"
    /\ SecretWarnings(SplitLines(code), 1) # <<>>
    /\ Len(vres.errors) = 1

\* C6: validate_python_code never raises.
C6_NeverRaises == vres.status # "raised"

\* C7: a later validation of a text validated before, with other texts
\* validated in between, returns the identical result.
C7_RevalidationIdentical ==
    (vprev.res.status # "none" /\ code = vprev.code) => vres = vprev.res

\* the remembered text has been validated again after a different text
C7_Witness ==
    /\ vprev.res.status = "returned"
    /\ vprev.res.errors # <<>>
    /\ vprev.other
    /\ code = vprev.code
    /\ vres.status = "returned"

\* =========================================================================
\*  The policy engine as called by the dispatcher
\* =========================================================================
Tools ==
    { "read_file", "write_to_file", "execute_command", "browser_navigate",
      "search_files", "list_code_definition_names" }

ParamPool ==
    [ path |->
        { Str(<<".", "/", "n", "o", "t", "e", "s", ".", "t", "x", "t">>), Str(<<".", ".", "/", "s", "e", "c", "r", "e", "t", ".", "t", "x", "t">>),
          Str(<<"a", "/", ".", ".", "/", "b", ".", "t", "x", "t">>), Str(<<"/", "e", "t", "c", "/", "p", "a", "s", "s", "w", "d">>),
          Str(<<"~", "/", ".", "s", "s", "h", "/", "i", "d">>), Str(<<".", ".", "/", "e", "t", "c", "/", "p", "a", "s", "s", "w", "d">>),
          Str(<<"/", "t", "m", "p", "/", "o", "u", "t", ".", "t", "x", "t">>),
          Str(<<>>), IntVal, NoneVal },
      file_path |-> { Str(<<"/", "e", "t", "c", "/", "p", "a", "s", "s", "w", "d">>), Str(<<".", "/", "n", "o", "t", "e", "s", ".", "t", "x", "t">>) },
      content |-> { Payload(1), Payload(10 * 1024 * 1024), Payload(10 * 1024 * 1024 + 1), IntVal },
      command |->
        { Str(<<"r", "m", " ", "-", "r", "f", " ", "/">>), Str(<<"l", "s">>), Str(<<"e", "c", "h", "o", " ", "t", "e", "s", "t">>),
          Str(<<>>), Str(<<" ">>), Str(<<"s", "u", "d", "o", " ", "l", "s">>),
          Str(<<"R", "M", " ", "-", "R", "F", " ", "/">>), Str(<<"l", "s", ";", " ", "r", "m", " ", " ", "-", "r", "f", " ", "x">>),
          Str(<<"r", "m", "\\", "s", "-", "r", "f">>), IntVal, NoneVal },
      url |->
        { Str(<<"h", "t", "t", "p", ":", "/", "/", "e", "x", "a", "m", "p", "l", "e", ".", "c", "o", "m">>), Str(<<"f", "t", "p", ":", "/", "/", "x">>),
          Str(<<"e", "x", "a", "m", "p", "l", "e", ".", "c", "o", "m">>), Str(<<"h", "t", "t", "p", ":", "/", "/", "l", "o", "c", "a", "l", "h", "o", "s", "t", "/", "x">>),
          Str(<<"h", "t", "t", "p", ":", "/", "/", "a", ".", "i", "n", "t", "e", "r", "n", "a", "l", ".", "b", "/">>), Str(<<"H", "T", "T", "P", ":", "/", "/", "x", ".", "c", "o", "m">>),
          Str(<<"h", "t", "t", "p", ":", "/", "/", "[", ":", ":", "1">>),
          Str(<<"h", "t", "t", "p", ":", "/", "/", "i", "n", "t", "e", "r", "n", "a", "l", "@", "e", "x", "a", "m", "p", "l", "e", ".", "c", "o", "m", "/">>),
          IntVal, NoneVal } ]

\* the parameter mappings with at most MaxParams keys
ParamMaps ==
    UNION { { m \in [keys -> UNION { ParamPool[k] : k \in keys }] :
                \A k \in keys : m[k] \in ParamPool[k] } :
            keys \in { ks \in SUBSET (DOMAIN ParamPool) : Cardinality(ks) <= MaxParams } }

IdleValidator ==
    /\ code = <<>>
    /\ vself = NoValidator
    /\ vres = NoResult
    /\ vprev = NoCall

InitToolCall ==
    /\ tool \in Tools
    /\ params \in ParamMaps
    /\ decision = NoDecision
    /\ IdleValidator
    /\ IdleClassifier
    /\ IdleCalls
    /\ IdleWorkflow
    /\ IdleAgent

ValidateToolCall ==
    /\ decision.status = "none"
    /\ decision' = validate_tool_call(tool, params)
    /\ UNCHANGED <<tool, params, code, vself, vres, vprev, classifierVars, callVars, workflowVars, agentVars>>

NextToolCall == ValidateToolCall

SpecToolCall == InitToolCall /\ [][NextToolCall]_vars

\* =========================================================================
\*  Properties of the Capability Policy Engine
\* =========================================================================
Decided == decision.status # "none"

\* the path has a component `..`
HasTraversal(p) == \E i \in 1..Len(SplitOn(p, "/", <<>>)) : SplitOn(p, "/", <<>>)[i] = <<".", ".">>

\* C8: under the path rules (read_file, write_to_file) a path with a `..`
\* segment is denied, whatever the other parameters.
C8_TraversalDenied ==
    (/\ Decided
     /\ tool \in {"read_file", "write_to_file"}
     /\ Get(params, "path").ty = "str"
     /\ HasTraversal(Get(params, "path").s))
    => (decision.status = "returned" /\ ~ decision.allowed)

\* the destructive patterns as the policy means them: the blocked patterns
\* with each doubled backslash read as one
RECURSIVE SingleEscapes(_)
SingleEscapes(p) ==
    IF Len(p) >= 2 /\ p[1] = "\\" /\ p[2] = "\\"
    THEN <<"\\">> \o SingleEscapes(SubSeq(p, 3, Len(p)))
    ELSE IF p = <<>> THEN <<>>
    ELSE <<Head(p)>> \o SingleEscapes(Tail(p))

DestructiveMatches(command) ==
    { k \in 1..Len(CommandBlockedPatterns) :
        Search(SingleEscapes(CommandBlockedPatterns[k]), command, TRUE) }

\* C9: an execute_command whose command matches a destructive pattern is
\* denied and the reason names a destructive pattern that the command
\* matches, also when the leading token is allow-listed.
C9_DestructivePatternNamed ==
    (/\ Decided
     /\ tool = "execute_command"
     /\ Get(params, "command").ty = "str"
     /\ DestructiveMatches(Get(params, "command").s) # {})
    => /\ decision.status = "returned"
       /\ ~ decision.allowed
       /\ \E k \in DestructiveMatches(Get(params, "command").s) :
             decision.reason.val = CommandBlockedPatterns[k]

\* C10: validate_tool_call never raises, for any capability and any
\* parameter mapping.
C10_ToolCallNeverRaises == decision.status # "raised"

\* the rule and the parameter value a denial's reason has to cite
ReasonNamesTrigger ==
    LET policy == generate_security_policy(tool)
        r == decision.reason
    IN CASE tool = "read_file" ->
              /\ r.kind = "Access to path blocked by policy"
              /\ r.val = Get(params, "path").s
              /\ FirstMatch(policy.blocked_paths, r.val, FALSE) # 0
         [] tool = "write_to_file" ->
              \/ /\ r.kind = "Write to path blocked by policy"
                 /\ r.val = Get(params, "path").s
                 /\ FirstMatch(policy.blocked_paths, r.val, FALSE) # 0
              \/ /\ r.kind = "Content too large"
                 /\ r.n = policy.max_file_size
                 /\ Get(params, "content").bytes > r.n
         [] tool = "execute_command" ->
              /\ r.kind = "Command blocked by security policy"
              /\ r.val \in Elems(policy.blocked_patterns)
              /\ Search(r.val, Get(params, "command").s, TRUE)
         [] tool = "browser_navigate" ->
              \/ /\ r.kind = "Invalid URL format"
                 /\ urlparse(Get(params, "url")).status # "ok"
              \/ /\ r.kind = "URL scheme not allowed"
                 /\ r.val = urlparse(Get(params, "url")).scheme
                 /\ r.val \notin Elems(policy.allowed_schemes)
              \/ /\ r.kind = "Access to domain blocked"
                 /\ r.val = urlparse(Get(params, "url")).netloc
                 /\ \E k \in 1..Len(policy.blocked_domains) :
                       Contains(policy.blocked_domains[k], r.val)
         [] OTHER -> FALSE

\* C11: a returned decision with allowed = false has a non-empty reason that
\* names the rule applied and the value that triggered it; a returned
\* decision with allowed = true has the empty reason.
C11_ReasonIffDenied ==
    decision.status = "returned" =>
        /\ ~ decision.allowed => (decision.reason.kind # "" /\ ReasonNamesTrigger)
        /\ decision.allowed => decision.reason = NoReason

\* a write of oversize content to a permitted path has been denied
C11_Witness ==
    /\ decision.status = "returned"
    /\ tool = "write_to_file"
    /\ ~ decision.allowed
    /\ decision.reason.kind = "Content too large"

\* C12: for a capability name absent from the policy table the policy is the
\* generic default (timeout, max_attempts) and the decision is allowed, with
\* the empty reason and no warnings, whatever the parameters.
C12_UnknownToolDefaultAllowed ==
    (Decided /\ tool \notin DOMAIN policies) =>
        /\ generate_security_policy(tool) = default_policy
        /\ {"timeout", "max_attempts"} \subseteq DOMAIN generate_security_policy(tool)
        /\ decision = Decision(TRUE, NoReason, <<>>)

\* an unknown capability has been validated with a non-string path
C12_Witness ==
    /\ Decided
    /\ tool \notin DOMAIN policies
    /\ "path" \in DOMAIN params
    /\ params["path"].ty # "str"
    /\ decision.allowed

\* the host of a network location: what follows the user information and
\* precedes the port
UrlHost(netloc) ==
    LET ats == { i \in 1..Len(netloc) : netloc[i] = "@" }
        at == IF ats = {} THEN 0 ELSE CHOOSE i \in ats : \A j \in ats : j <= i
        hostport == SubSeq(netloc, at + 1, Len(netloc))
        colon == Find(hostport, {":"})
    IN IF colon = 0 THEN hostport ELSE SubSeq(hostport, 1, colon - 1)

\* C13: a browser_navigate of a URL that parses is allowed exactly when the
\* scheme is an allowed scheme and no blocked domain occurs in the URL's
\* host.
C13_NavigateAllowedIffSchemeAndHostPass ==
    (/\ Decided
     /\ tool = "browser_navigate"
     /\ Get(params, "url").ty = "str"
     /\ urlparse(Get(params, "url")).status = "ok")
    => /\ decision.status = "returned"
       /\ decision.allowed <=>
            /\ urlparse(Get(params, "url")).scheme
                  \in Elems(policies.browser_navigate.allowed_schemes)
            /\ \A k \in 1..Len(policies.browser_navigate.blocked_domains) :
                  ~ Contains(policies.browser_navigate.blocked_domains[k],
                             UrlHost(urlparse(Get(params, "url")).netloc))

\* C14: an execute_command that matches no destructive pattern and whose
\* leading token is not an allowed command is denied, and the reason names
\* the allow-list rule and the token.
C14_UnlistedCommandDenied ==
    (/\ Decided
     /\ tool = "execute_command"
     /\ Get(params, "command").ty = "str"
     /\ ~ SplitIsEmpty(Get(params, "command").s)
     /\ DestructiveMatches(Get(params, "command").s) = {}
     /\ LowerStr(FirstWord(Get(params, "command").s))
           \notin Elems(policies.execute_command.allowed_commands))
    => /\ decision.status = "returned"
       /\ ~ decision.allowed
       /\ decision.reason.kind = "Command not in allowed list"
       /\ decision.reason.val = LowerStr(FirstWord(Get(params, "command").s))

\* =========================================================================
\*  The risk classifier of the generator
\* =========================================================================
MaxTools == 9

SECURITY_LEVELS == {"low", "medium", "high", "maximum"}

\* the capability names the generator knows, and two it does not
ToolNames ==
    << "execute_command", "browser_navigate", "write_to_file", "read_file",
       "search_files", "apply_diff", "list_files", "calculator",
       "codebase_search", "list_code_definition_names", "use_mcp_tool",
       "browser_click" >>

\* the duplicate-free capability list holding the names numbered in S
RECURSIVE ToolList(_, _)
ToolList(i, S) ==
    IF i > Len(ToolNames) THEN <<>>
    ELSE (IF i \in S THEN <<ToolNames[i]>> ELSE <<>>) \o ToolList(i + 1, S)

\* _assess_tool_risk with the level test dropped
assess_tool_risk_ignores_level(tool_name, policy, level) ==
    IF tool_name \in {"execute_command", "write_to_file", "browser_navigate"}
    THEN "high"
    ELSE IF tool_name \in {"read_file", "search_files", "apply_diff"}
    THEN "medium"
    ELSE "low"

assess_tool_risk(tool_name, policy, level) ==
    IF tool_name \in {"execute_command", "write_to_file", "browser_navigate"}
    THEN IF level \in {"high", "maximum"} THEN "high" ELSE "medium"
    ELSE IF tool_name \in {"read_file", "search_files", "apply_diff"}
    THEN "medium"
    ELSE "low"

Issue(kind, n) == [kind |-> kind, n |-> n]

\* _check_tool_compatibility reporting complexity from 8 capabilities on
check_tool_compatibility_from_8(tool_list) ==
    (IF "execute_command" \in Elems(tool_list) /\ "browser_navigate" \in Elems(tool_list)
     THEN << Issue("Combining command execution with browser automation", 0) >>
     ELSE <<>>)
    \o (IF Len(tool_list) >= 8
        THEN << Issue("Large number of tools", Len(tool_list)) >>
        ELSE <<>>)

check_tool_compatibility(tool_list) ==
    (IF "execute_command" \in Elems(tool_list) /\ "browser_navigate" \in Elems(tool_list)
     THEN << Issue("Combining command execution with browser automation", 0) >>
     ELSE <<>>)
    \o (IF Len(tool_list) > 8
        THEN << Issue("Large number of tools", Len(tool_list)) >>
        ELSE <<>>)

generate_security_recommendations(tool_list, level, validation) ==
    (IF level = "high"
     THEN << "Consider using sandboxed environments",
             "Implement additional input validation" >>
     ELSE <<>>)
    \o (IF "execute_command" \in Elems(tool_list)
        THEN << "Review command execution policies" >> ELSE <<>>)
    \o (IF "browser_navigate" \in Elems(tool_list)
        THEN << "Implement URL validation" >> ELSE <<>>)
    \o (IF "write_to_file" \in Elems(tool_list)
        THEN << "Use file path validation" >> ELSE <<>>)

\* generate_tools: an implementation and a policy for every capability
\* whose generation did not raise
generate_tools(tool_names, raised) ==
    [ implementations |-> Elems(tool_names) \ raised,
      security_policies |->
          [ t \in Elems(tool_names) \ raised |-> generate_security_policy(t) ] ]

RECURSIVE ToolWarnings(_, _, _)
ToolWarnings(tool_list, generated_tools, level) ==
    IF tool_list = <<>> THEN <<>>
    ELSE (IF /\ Head(tool_list) \in generated_tools.implementations
             /\ level = "high"
             /\ Head(tool_list) \in {"execute_command", "browser_navigate"}
          THEN << Issue("may pose security risks at high security level", 0) >>
          ELSE <<>>)
         \o ToolWarnings(Tail(tool_list), generated_tools, level)

validate_tool_security(tool_list, generated_tools, level) ==
    LET validations ==
            [ t \in Elems(tool_list) \cap generated_tools.implementations |->
                [ policy |-> generated_tools.security_policies[t],
                  risk_level |-> assess_tool_risk(
                      t, generated_tools.security_policies[t], level) ] ]
        partial ==
            [ status |-> "returned",
              level |-> level,
              validations |-> validations,
              warnings |-> ToolWarnings(tool_list, generated_tools, level),
              compatibility_issues |-> check_tool_compatibility(tool_list),
              recommendations |-> <<>> ]
    IN [ partial EXCEPT !.recommendations =
             generate_security_recommendations(tool_list, level, partial) ]

InitClassify ==
    /\ \E S \in SUBSET (1..MaxTools) : tools = ToolList(1, S)
    /\ security_level \in SECURITY_LEVELS
    /\ failed \in { {} } \cup { {t} : t \in Elems(tools) }
    /\ validation_results = NoValidation
    /\ IdleValidator
    /\ IdleToolCall
    /\ IdleCalls
    /\ IdleWorkflow
    /\ IdleAgent

ValidateToolSecurity ==
    /\ validation_results.status = "none"
    /\ validation_results' =
          validate_tool_security(tools, generate_tools(tools, failed), security_level)
    /\ UNCHANGED <<tools, security_level, failed, code, vself, vres, vprev,
                   tool, params, decision, callVars, workflowVars, agentVars>>

NextClassify == ValidateToolSecurity

SpecClassify == InitClassify /\ [][NextClassify]_vars

\* =========================================================================
\*  Properties of the risk classifier
\* =========================================================================
Classified == validation_results.status = "returned"

HighRiskTools == {"execute_command", "write_to_file", "browser_navigate"}
MediumRiskTools == {"read_file", "search_files", "apply_diff"}

\* C15: a classified capability is High exactly when it is one of
\* execute_command, write_to_file, browser_navigate and the level is high or
\* maximum; a capability of the medium-risk table is Medium; a capability
\* of neither table, known or not, is Low.
C15_RiskLevels ==
    Classified =>
        \A t \in DOMAIN validation_results.validations :
            LET risk == validation_results.validations[t].risk_level IN
            /\ (risk = "high") <=>
                  (t \in HighRiskTools /\ security_level \in {"high", "maximum"})
            /\ t \in MediumRiskTools => risk = "medium"
            /\ t \notin HighRiskTools \cup MediumRiskTools => risk = "low"

\* a dangerous capability classified at level medium and an unknown one
C15_Witness ==
    /\ Classified
    /\ security_level = "medium"
    /\ {"execute_command", "read_file", "calculator"}
          \subseteq DOMAIN validation_results.validations
    /\ validation_results.validations["execute_command"].risk_level = "medium"
    /\ validation_results.validations["calculator"].risk_level = "low"

HasIssue(kind) ==
    \E i \in 1..Len(validation_results.compatibility_issues) :
        validation_results.compatibility_issues[i].kind = kind

\* C16: the combination issue is reported exactly when execute_command and
\* browser_navigate are both in the list, the complexity issue exactly when
\* the list has more than 8 capabilities, and the classification completes
\* with a risk level for every generated capability whatever the issues.
C16_CompatibilityIssues ==
    Classified =>
        /\ HasIssue("Combining command execution with browser automation")
              <=> {"execute_command", "browser_navigate"} \subseteq Elems(tools)
        /\ HasIssue("Large number of tools") <=> Len(tools) > 8
        /\ Len(validation_results.compatibility_issues) <= 2
        /\ DOMAIN validation_results.validations = Elems(tools) \ failed

\* nine capabilities, among them the risky pair, have been classified and
\* both issues are reported
C16_Witness ==
    /\ Classified
    /\ Len(tools) = 9
    /\ HasIssue("Combining command execution with browser automation")
    /\ HasIssue("Large number of tools")
    /\ Cardinality(DOMAIN validation_results.validations) = 9

\* =========================================================================
\*  Concurrent calls on one shared SecurityValidator
\* =========================================================================
NumCalls == 2

\* the dispatch of validate_tool_call to the tool-specific validator
tool_specific_validation(tool_name, parameters, policy, validation_result) ==
    CASE tool_name = "read_file" ->
            validate_read_file(parameters, policy, validation_result)
      [] tool_name = "write_to_file" ->
            validate_write_file(parameters, policy, validation_result)
      [] tool_name = "execute_command" ->
            validate_execute_command(parameters, policy, validation_result)
      [] tool_name = "browser_navigate" ->
            validate_browser_navigate(parameters, policy, validation_result)
      [] OTHER -> validation_result

\* validation_result kept in one dict on the shared validator
ResultOwner_validator(c) == 0

\* validation_result is a dict built by the call itself: its owner is the call
ResultOwner(c) == c

Call(kind, tool_name, parameters, level) ==
    [kind |-> kind, tool |-> tool_name, params |-> parameters, level |-> level,
     pc |-> "start", policy |-> <<>>, ret |-> NoDecision, overlapped |-> FALSE]

RiskResult(risk) == [status |-> "returned", risk |-> risk]

CallPool ==
    { Call("validate", "read_file", [path |-> Str(<<"/", "e", "t", "c", "/", "p", "a", "s", "s", "w", "d">>)], ""),
      Call("validate", "read_file", [path |-> Str(<<>>)], ""),
      Call("validate", "execute_command", [command |-> Str(<<"l", "s">>)], ""),
      Call("validate", "browser_navigate", [url |-> Str(<<"h", "t", "t", "p", ":", "/", "/", "e", "x", "a", "m", "p", "l", "e", ".", "c", "o", "m">>)], ""),
      Call("validate", "write_to_file", [content |-> IntVal], ""),
      Call("validate", "list_code_definition_names", [path |-> Str(<<"/", "e", "t", "c", "/", "p", "a", "s", "s", "w", "d">>)], ""),
      Call("assess", "execute_command", <<>>, "high"),
      Call("assess", "read_file", <<>>, "low") }

InitConcurrent ==
    /\ calls \in [1..NumCalls -> CallPool]
    /\ results = [o \in 0..NumCalls |-> NoDecision]
    /\ IdleValidator
    /\ IdleToolCall
    /\ IdleClassifier
    /\ IdleWorkflow
    /\ IdleAgent

\* some other call is in the middle of its body
Overlaps(c) == \E d \in DOMAIN calls : d # c /\ calls[d].pc \notin {"start", "done"}

\* policy = self.generate_security_policy(tool_name)
LookupPolicy(c) ==
    /\ calls[c].pc = "start"
    /\ calls' = [calls EXCEPT ![c].pc = "policy",
                              ![c].policy = generate_security_policy(calls[c].tool),
                              ![c].overlapped = @ \/ Overlaps(c)]
    /\ UNCHANGED results

\* validation_result = {'allowed': True, 'reason': '', 'warnings': [], ...}
NewResult(c) ==
    /\ calls[c].kind = "validate"
    /\ calls[c].pc = "policy"
    /\ results' = [results EXCEPT ![ResultOwner(c)] = Decision(TRUE, NoReason, <<>>)]
    /\ calls' = [calls EXCEPT ![c].pc = "result",
                              ![c].overlapped = @ \/ Overlaps(c)]

\* validation_result = self._validate_<tool>(parameters, policy, validation_result)
RunValidator(c) ==
    /\ calls[c].pc = "result"
    /\ results' = [results EXCEPT ![ResultOwner(c)] =
            tool_specific_validation(calls[c].tool, calls[c].params,
                                     calls[c].policy, results[ResultOwner(c)])]
    /\ calls' = [calls EXCEPT ![c].pc = "validated",
                              ![c].overlapped = @ \/ Overlaps(c)]

\* return validation_result
ReturnResult(c) ==
    /\ calls[c].pc = "validated"
    /\ calls' = [calls EXCEPT ![c].pc = "done",
                              ![c].ret = results[ResultOwner(c)],
                              ![c].overlapped = @ \/ Overlaps(c)]
    /\ UNCHANGED results

\* 'risk_level': self._assess_tool_risk(tool_name, policy, security_level)
AssessRisk(c) ==
    /\ calls[c].kind = "assess"
    /\ calls[c].pc = "policy"
    /\ calls' = [calls EXCEPT ![c].pc = "done",
                              ![c].ret = RiskResult(assess_tool_risk(
                                  calls[c].tool, calls[c].policy, calls[c].level)),
                              ![c].overlapped = @ \/ Overlaps(c)]
    /\ UNCHANGED results

NextConcurrent ==
    /\ \E c \in DOMAIN calls :
          \/ LookupPolicy(c)
          \/ NewResult(c)
          \/ RunValidator(c)
          \/ ReturnResult(c)
          \/ AssessRisk(c)
    /\ UNCHANGED <<code, vself, vres, vprev, tool, params, decision, classifierVars,
                   workflowVars, agentVars>>

SpecConcurrent == InitConcurrent /\ [][NextConcurrent]_vars

\* what the call returns when it runs alone
AloneResult(call) ==
    IF call.kind = "validate" THEN validate_tool_call(call.tool, call.params)
    ELSE RiskResult(assess_tool_risk(call.tool, generate_security_policy(call.tool),
                                     call.level))

\* C17: under every interleaving of the calls on the shared validator each
\* call returns what it returns when run alone, and the policy a call reads
\* is the policy of the table whatever the other calls did before.
C17_ConcurrentCallsIndependent ==
    \A c \in DOMAIN calls :
        /\ calls[c].pc = "done" => calls[c].ret = AloneResult(calls[c])
        /\ calls[c].pc # "start" =>
              calls[c].policy = generate_security_policy(calls[c].tool)

\* two validations that ran interleaved have returned, one denied and one
\* allowed
C17_Witness ==
    \E c, d \in DOMAIN calls :
        /\ calls[c].pc = "done" /\ calls[d].pc = "done"
        /\ calls[c].overlapped /\ calls[d].overlapped
        /\ calls[c].kind = "validate" /\ calls[d].kind = "validate"
        /\ calls[c].ret.status = "returned" /\ ~ calls[c].ret.allowed
        /\ calls[d].ret.status = "returned" /\ calls[d].ret.allowed

\* =========================================================================
\*  Properties of the Static Source Validator: imports and line heuristics
\* =========================================================================
\* the module paths the import declarations of the text name, in source order
RECURSIVE DeclaredModules(_)
DeclaredModules(src) ==
    IF src = <<>> THEN <<>>
    ELSE (IF Head(src).k \in {"import", "from"} THEN Head(src).mods ELSE <<>>)
         \o DeclaredModules(Tail(src))

\* C18 as stated: imports_found holds the root segment of every declared
\* module, each root once.
C18_ImportsFoundRootsOnce ==
    (Returned /\ Parsed) =>
        /\ \A i \in 1..Len(vres.imports_found) : Len(vres.imports_found[i]) = 1
        /\ { vres.imports_found[i][1] : i \in 1..Len(vres.imports_found) }
              = { DeclaredModules(code)[i][1] : i \in 1..Len(DeclaredModules(code)) }
        /\ \A i, j \in 1..Len(vres.imports_found) :
              vres.imports_found[i] = vres.imports_found[j] => i = j

\* C18: imports_found holds the module path of every import declaration as
\* written, all segments kept, one entry per declared module in source
\* order, a repeated import once per occurrence.
C18_ImportsFoundAsWritten ==
    (Returned /\ Parsed) => vres.imports_found = DeclaredModules(code)

\* the same dotted module has been imported twice
C18_Witness ==
    /\ Returned /\ Parsed
    /\ Len(vres.imports_found) = 2
    /\ vres.imports_found[1] = vres.imports_found[2]
    /\ Len(vres.imports_found[1]) = 2
    /\ \E L \in 1..Len(code) : code[L].k = "from"

HasWarning(msg, line) ==
    \E k \in 1..Len(vres.warnings) :
        vres.warnings[k].msg = msg /\ vres.warnings[k].line = line

\* C19: the warning that no imports were detected is given exactly when the
\* text has no import declaration of either form, a relative import without
\* a module name counting as an import declaration.
C19_NoImportsWarningIffNoDeclaration ==
    (Returned /\ Parsed) =>
        (HasWarning("No imports detected", 0)
            <=> \A L \in 1..Len(code) : code[L].k \notin {"import", "from"})

CredentialNames == {"api_key", "token", "password"}

\* the line assigns a quoted literal to a credential-shaped name
AssignsQuotedLiteral(line) ==
    /\ line.k = "assign"
    /\ Elems(line.target) \cap CredentialNames # {}
    /\ line.e.t \in {"StrD", "StrS"}

HasEnvLookup(line) ==
    \/ Contains(<<"os", ".", "getenv">>, LineText(line))
    \/ Contains(<<"environ", ".", "get">>, LineText(line))

\* C20 as stated: every line assigning a quoted literal, in single or double
\* quotes and with any spacing around `=`, to a credential-shaped name gets
\* the secret warning unless it has an environment lookup, and a line with
\* an environment lookup never gets it.
C20_SecretWarningAnyQuoteAnySpacing ==
    (Returned /\ Parsed) =>
        \A L \in 1..Len(code) :
            /\ (AssignsQuotedLiteral(code[L]) /\ ~ HasEnvLookup(code[L]))
                  => HasWarning("Potential hardcoded secret detected", L)
            /\ HasEnvLookup(code[L])
                  => ~ HasWarning("Potential hardcoded secret detected", L)

\* the line has a credential name, one space, `=`, one space and a double
\* quote, in that order and adjacent
HasSecretPattern(line) ==
    \E name \in CredentialNames :
        Contains(<<name, " ", "=", " ", "\"">>, LineText(line))

\* C20: a line gets the secret warning exactly when it has a credential name
\* followed by ` = "` (single spaces, double quote) and no environment
\* lookup; a line with an environment lookup never gets it.
C20_SecretWarningLiteralPattern ==
    (Returned /\ Parsed) =>
        \A L \in 1..Len(code) :
            HasWarning("Potential hardcoded secret detected", L)
                <=> (HasSecretPattern(code[L]) /\ ~ HasEnvLookup(code[L]))

\* a double-quoted secret has been flagged next to a line that has the
\* pattern and an environment lookup
C20_Witness ==
    /\ Returned /\ Parsed
    /\ \E L, M \in 1..Len(code) :
        /\ HasSecretPattern(code[L]) /\ ~ HasEnvLookup(code[L])
        /\ HasWarning("Potential hardcoded secret detected", L)
        /\ HasSecretPattern(code[M]) /\ HasEnvLookup(code[M])
        /\ ~ HasWarning("Potential hardcoded secret detected", M)

\* number of calls in an expression whose target is a plain identifier with
\* a forbidden name
RECURSIVE SumOver(_, _)
SumOver(counts, i) ==
    IF i > Len(counts) THEN 0 ELSE counts[i] + SumOver(counts, i + 1)

RECURSIVE ForbiddenCallCount(_)
ForbiddenCallCount(e) ==
    (IF e.t = "Call" /\ e.kids[1].t = "Name" /\ e.kids[1].id \in ForbiddenNames
     THEN 1 ELSE 0)
    + SumOver([i \in 1..Len(e.kids) |-> ForbiddenCallCount(e.kids[i])], 1)

ForbiddenErrorsAt(L) ==
    Cardinality({ k \in 1..Len(vres.errors) :
                    /\ vres.errors[k].msg = "Forbidden function call"
                    /\ vres.errors[k].line = L })

\* C21: for every line of a parsed source the number of forbidden-call
\* errors citing the line equals the number of forbidden bare calls written
\* on it, whether the line is in a function, async function or class body,
\* in a lambda, or in the arguments or target of another call; no error
\* cites any other line and equal errors are not merged.
C21_CallScanExhaustive ==
    (Returned /\ Parsed) =>
        /\ \A L \in 1..Len(code) : ForbiddenErrorsAt(L) = ForbiddenCallCount(code[L].e)
        /\ ForbiddenErrorsAt(0) = 0

\* a forbidden call in the body of a function, async function or class
C21_Witness ==
    /\ Returned /\ Parsed
    /\ Len(code) = 2
    /\ code[1].k \in {"def", "asyncdef", "class"}
    /\ ForbiddenCallCount(code[2].e) >= 1
    /\ ForbiddenErrorsAt(2) = ForbiddenCallCount(code[2].e)

\* =========================================================================
\*  Properties of the Capability Policy Engine: rule order and coverage
\* =========================================================================
\* the path violates the path rules: a traversal segment or a blocked pattern
ViolatesPathRules(p, patterns) ==
    HasTraversal(p) \/ FirstMatch(patterns, p, FALSE) # 0

\* C22: a write_to_file that violates the path rules and the size rule is
\* denied with the reason of the path rule, the first in the order path,
\* command, url, size, and nothing is added by the later rule.
C22_FirstViolatedRuleDecides ==
    (/\ Decided
     /\ tool = "write_to_file"
     /\ Get(params, "path").ty = "str"
     /\ ViolatesPathRules(Get(params, "path").s, policies.write_to_file.blocked_paths)
     /\ Get(params, "content").ty = "str"
     /\ Get(params, "content").bytes > policies.write_to_file.max_file_size)
    => /\ decision.status = "returned"
       /\ ~ decision.allowed
       /\ decision.reason.kind = "Write to path blocked by policy"
       /\ decision.warnings = <<>>

\* the path is an allowed root or lies below one
InsideRoot(p, roots) ==
    \E k \in 1..Len(roots) : p = roots[k] \/ StartsWith(p, roots[k] \o <<"/">>)

\* C23: a write_to_file whose path has no traversal segment, matches no
\* blocked pattern and whose content is within the size limit is allowed,
\* with a warning exactly when the path lies outside every allowed
\* directory of the policy.
C23_RootsAdvisoryWarning ==
    (/\ Decided
     /\ tool = "write_to_file"
     /\ Get(params, "path").ty = "str"
     /\ Get(params, "path").s # <<>>
     /\ ~ ViolatesPathRules(Get(params, "path").s, policies.write_to_file.blocked_paths)
     /\ Get(params, "content").ty = "str"
     /\ Get(params, "content").bytes <= policies.write_to_file.max_file_size)
    => /\ decision.status = "returned"
       /\ decision.allowed
       /\ (decision.warnings # <<>>)
            <=> ~ InsideRoot(Get(params, "path").s,
                             policies.write_to_file.allowed_directories)

\* C24: a read_file or write_to_file whose blocked path is given under the
\* name file_path, with no parameter path, is denied as it is under path.
C24_FilePathRecognised ==
    (/\ Decided
     /\ tool \in {"read_file", "write_to_file"}
     /\ "path" \notin DOMAIN params
     /\ "file_path" \in DOMAIN params
     /\ FirstMatch(policies[tool].blocked_paths, params["file_path"].s, FALSE) # 0)
    => decision = validate_tool_call(tool, [path |-> params["file_path"]])

\* the blocked path patterns a policy declares, under either key
PathBlockedPatterns(policy) ==
    IF "blocked_paths" \in DOMAIN policy THEN policy.blocked_paths
    ELSE IF "allowed_paths" \in DOMAIN policy /\ "blocked_patterns" \in DOMAIN policy
    THEN policy.blocked_patterns
    ELSE <<>>

\* C25: every capability whose policy declares blocked path patterns,
\* search_files included, is denied when its path matches one of them.
C25_DispatchOnRuleKinds ==
    (/\ Decided
     /\ Get(params, "path").ty = "str"
     /\ FirstMatch(PathBlockedPatterns(generate_security_policy(tool)),
                   Get(params, "path").s, FALSE) # 0)
    => (decision.status = "returned" /\ ~ decision.allowed)

\* C26: an execute_command that matches no destructive pattern, does not
\* begin with sudo and whose leading token is an allowed command is allowed
\* with the empty reason.
C26_AllowedCommandNotBlocked ==
    (/\ Decided
     /\ tool = "execute_command"
     /\ Get(params, "command").ty = "str"
     /\ ~ SplitIsEmpty(Get(params, "command").s)
     /\ DestructiveMatches(Get(params, "command").s) = {}
     /\ FirstWord(Get(params, "command").s) # <<"s", "u", "d", "o">>
     /\ LowerStr(FirstWord(Get(params, "command").s))
           \in Elems(policies.execute_command.allowed_commands))
    => /\ decision.status = "returned"
       /\ decision.allowed
       /\ decision.reason = NoReason

\* C27: what the assessment reports at level high it also reports at level
\* maximum for the same capabilities: every warning, every recommendation,
\* and a risk tier that is not lower.
RiskRank(risk) == CASE risk = "low" -> 0 [] risk = "medium" -> 1 [] OTHER -> 2

C27_MonotoneInLevel ==
    (Classified /\ security_level = "high") =>
        LET atMaximum == validate_tool_security(tools, generate_tools(tools, failed),
                                                "maximum")
        IN /\ Len(validation_results.warnings) <= Len(atMaximum.warnings)
           /\ Elems(validation_results.warnings) \subseteq Elems(atMaximum.warnings)
           /\ Elems(validation_results.recommendations)
                 \subseteq Elems(atMaximum.recommendations)
           /\ \A t \in DOMAIN validation_results.validations :
                 RiskRank(validation_results.validations[t].risk_level)
                    <= RiskRank(atMaximum.validations[t].risk_level)

\* =========================================================================
\*  MultiToolWorkflow (examples/multi_tool_coordination.py)
\* =========================================================================
MaxSteps == 2

\* add_step(tool_name, params, fallback_tool, retry_on_failure, max_retries)
Step(fallback_tool, retry_on_failure, max_retries) ==
    [fallback_tool |-> fallback_tool, retry_on_failure |-> retry_on_failure,
     max_retries |-> max_retries]

\* the steps a caller adds; fallback_tool "" stands for None
StepPool ==
    { Step("", TRUE, 2),
      Step("codebase_search", TRUE, 2),
      Step("", FALSE, 0),
      Step("execute_command", FALSE, 2),
      Step("search_files", TRUE, 0),
      Step("", TRUE, -1) }

ToolResult(step, tool_name, success, retry_count) ==
    [step |-> step, tool_name |-> tool_name, success |-> success,
     retry_count |-> retry_count]

\* the retry test with the retry_on_failure flag dropped
should_retry_ignores_flag(step, retry_count) == retry_count <= step.max_retries

\* retry_count <= max_retries and step['retry_on_failure']
should_retry(step, retry_count) ==
    retry_count <= step.max_retries /\ step.retry_on_failure

InitWorkflow ==
    /\ workflow_steps \in UNION { [1..n -> StepPool] : n \in 0..MaxSteps }
    /\ wresults = <<>>
    /\ wf = [pc |-> "idle", i |-> 0, retry_count |-> 0,
             attempts |-> [k \in 1..Len(workflow_steps) |-> [main |-> 0, fallback |-> 0]]]
    /\ IdleValidator
    /\ IdleToolCall
    /\ IdleClassifier
    /\ IdleCalls
    /\ IdleAgent

\* execute_workflow is called
StartWorkflow ==
    /\ wf.pc = "idle"
    /\ wf' = [wf EXCEPT !.pc = "for", !.i = 1]
    /\ UNCHANGED <<workflow_steps, wresults>>

\* for i, step in enumerate(self.workflow_steps, 1): retry_count = 0
NextStep ==
    /\ wf.pc = "for"
    /\ wf' = IF wf.i > Len(workflow_steps)
             THEN [wf EXCEPT !.pc = "done"]
             ELSE [wf EXCEPT !.pc = "while", !.retry_count = 0]
    /\ UNCHANGED <<workflow_steps, wresults>>

\* one pass of `while retry_count <= max_retries`, up to the fallback
Attempt ==
    /\ wf.pc = "while"
    /\ LET step == workflow_steps[wf.i] IN
       IF ~ (wf.retry_count <= step.max_retries)
       THEN /\ wf' = [wf EXCEPT !.pc = "for", !.i = @ + 1]
            /\ UNCHANGED wresults
       ELSE \E success \in BOOLEAN :
            LET result == ToolResult(wf.i, "tool", success, wf.retry_count)
                counted == [wf EXCEPT !.attempts[wf.i].main = @ + 1]
            IN IF success
               THEN /\ wresults' = Append(wresults, result)
                    /\ wf' = [counted EXCEPT !.pc = "for", !.i = @ + 1]
               ELSE IF should_retry(step, wf.retry_count + 1)
               THEN /\ wf' = [counted EXCEPT !.retry_count = @ + 1]
                    /\ UNCHANGED wresults
               ELSE IF step.fallback_tool # ""
               THEN /\ wf' = [counted EXCEPT !.pc = "fallback", !.retry_count = @ + 1]
                    /\ UNCHANGED wresults
               ELSE /\ wresults' = Append(wresults, result)
                    /\ wf' = [counted EXCEPT !.pc = "for", !.i = @ + 1,
                                             !.retry_count = @ + 1]
    /\ UNCHANGED workflow_steps

\* fallback_result = self.execute_step(fallback_step)
Fallback ==
    /\ wf.pc = "fallback"
    /\ \E success \in BOOLEAN :
        /\ wresults' = Append(wresults,
              IF success
              THEN ToolResult(wf.i, workflow_steps[wf.i].fallback_tool, TRUE, 0)
              ELSE ToolResult(wf.i, "tool", FALSE, wf.retry_count - 1))
        /\ wf' = [wf EXCEPT !.pc = "for", !.i = @ + 1,
                            !.attempts[wf.i].fallback = @ + 1]
    /\ UNCHANGED workflow_steps

NextWorkflow ==
    /\ \/ StartWorkflow
       \/ NextStep
       \/ Attempt
       \/ Fallback
    /\ UNCHANGED <<code, vself, vres, vprev, tool, params, decision,
                   classifierVars, callVars, agentVars>>

SpecWorkflow == InitWorkflow /\ [][NextWorkflow]_vars

\* the interpreter keeps running the loop
SpecWorkflowLive == SpecWorkflow /\ WF_vars(NextWorkflow)

\* =========================================================================
\*  Properties of MultiToolWorkflow
\* =========================================================================
WorkflowDone == wf.pc = "done"

\* C28 as stated: when the workflow is done there is one result per step, in
\* step order; a step is attempted at most max_retries + 1 times plus one
\* fallback, and exactly once when retry_on_failure is false.
C28_OneResultPerStep ==
    WorkflowDone =>
        /\ Len(wresults) = Len(workflow_steps)
        /\ \A k \in 1..Len(wresults) : wresults[k].step = k
        /\ \A k \in 1..Len(workflow_steps) :
              /\ wf.attempts[k].main <= workflow_steps[k].max_retries + 1
              /\ wf.attempts[k].fallback <= 1
              /\ ~ workflow_steps[k].retry_on_failure => wf.attempts[k].main = 1

\* the steps that are executed at all
RECURSIVE ExecutedSteps(_)
ExecutedSteps(k) ==
    IF k > Len(workflow_steps) THEN <<>>
    ELSE (IF workflow_steps[k].max_retries >= 0 THEN <<k>> ELSE <<>>)
         \o ExecutedSteps(k + 1)

WorkflowResultsInOrder ==
    /\ Len(wresults) = Len(ExecutedSteps(1))
    /\ \A k \in 1..Len(wresults) : wresults[k].step = ExecutedSteps(1)[k]

AttemptsBounded ==
    \A k \in 1..Len(workflow_steps) :
        LET step == workflow_steps[k] IN
        /\ step.max_retries >= 0 => wf.attempts[k].main <= step.max_retries + 1
        /\ step.max_retries < 0 =>
              (wf.attempts[k].main = 0 /\ wf.attempts[k].fallback = 0)
        /\ wf.attempts[k].fallback <= 1
        /\ (step.fallback_tool = "" => wf.attempts[k].fallback = 0)
        /\ (~ step.retry_on_failure /\ step.max_retries >= 0 /\ wf.i > k)
              => wf.attempts[k].main = 1

\* C28: execute_workflow terminates, and when it is done results holds one
\* ToolResult for every step with max_retries >= 0, in step order, and none
\* for a step with negative max_retries; a step is attempted at most
\* max_retries + 1 times plus at most one fallback attempt, and exactly once
\* when retry_on_failure is false.
C28_WorkflowTerminatesOneResultPerStep ==
    /\ [](AttemptsBounded /\ (WorkflowDone => WorkflowResultsInOrder))
    /\ <>WorkflowDone

\* a step has used all its retries and a fallback has produced the result
C28_Witness ==
    /\ WorkflowDone
    /\ \E k \in 1..Len(workflow_steps) :
          /\ wf.attempts[k].main = workflow_steps[k].max_retries + 1
          /\ wf.attempts[k].main = 3
          /\ wf.attempts[k].fallback = 1
          /\ wresults[k].success
          /\ wresults[k].tool_name = workflow_steps[k].fallback_tool

\* =========================================================================
\*  LongRunningAgent (templates/long_running_agent_template.py)
\* =========================================================================
MaxFeatures == 3

\* one entry of features.json; priority "" stands for an entry without the
\* key, verified_in_session 0 for an entry never verified
Feature(id, priority, passes, blockers) ==
    [id |-> id, priority |-> priority, passes |-> passes, blockers |-> blockers,
     verified_in_session |-> 0]

FeatureId(k) ==
    CASE k = 1 -> "F1" [] k = 2 -> "F2" [] k = 3 -> "F3" [] k = 4 -> "F4"
      [] OTHER -> "F5"

\* a features.json a project can hold: ids in file order
FeatureFile(c) == [k \in DOMAIN c |-> Feature(FeatureId(k), c[k][1], c[k][2], c[k][3])]

FeatureChoices(priorities, blockerSets) ==
    UNION { [1..n -> priorities \X BOOLEAN \X blockerSets] : n \in 0..MaxFeatures }

\* priority_order.get(f.get('priority', 'normal'), 99)
priority_key(f) ==
    LET priority == IF f.priority = "" THEN "normal" ELSE f.priority IN
    CASE priority = "critical" -> 0
      [] priority = "high" -> 1
      [] priority = "normal" -> 2
      [] priority = "low" -> 3
      [] OTHER -> 99

RECURSIVE ConcatByKey(_, _)
ConcatByKey(seq, keys) ==
    IF keys = <<>> THEN <<>>
    ELSE SelectSeq(seq, LAMBDA f : priority_key(f) = Head(keys))
         \o ConcatByKey(seq, Tail(keys))

\* sorted(incomplete, key=...): a stable sort by the priority key
incomplete_sorted(incomplete) == ConcatByKey(incomplete, <<0, 1, 2, 3, 99>>)

\* completed = {f['id'] for f in all_features if f.get('passes')}
completed_ids(all_features) ==
    { all_features[k].id : k \in { j \in 1..Len(all_features) : all_features[j].passes } }

\* the dependency test with the blockers ignored
blockers_met_ignored(blockers, completed) == TRUE

\* not (blockers and not blockers.issubset(completed))
blockers_met(blockers, completed) ==
    ~ (blockers # {} /\ ~ (blockers \subseteq completed))

RECURSIVE select_loop(_, _, _, _)
select_loop(rest, selected, completed, max_count) ==
    IF rest = <<>> \/ Len(selected) >= max_count THEN selected
    ELSE select_loop(Tail(rest),
                     IF blockers_met(Head(rest).blockers, completed)
                     THEN Append(selected, Head(rest)) ELSE selected,
                     completed, max_count)

select_prioritized_features(incomplete, all_features, max_count) ==
    select_loop(incomplete_sorted(incomplete), <<>>,
                completed_ids(all_features), max_count)

\* incomplete = [f for f in all_features if not f.get('passes', False)]
incomplete_of(all_features) == SelectSeq(all_features, LAMBDA f : ~ f.passes)

\* select_work passes max_count=3
SelectWorkMaxCount == 3

\* ---- selection on its own: any features.json, any max_count --------------
MaxCounts == {1, 3}

InitSelect ==
    /\ \E c \in FeatureChoices({"critical", "high", "low", ""}, {{}, {"F1"}}) :
          features_json = FeatureFile(c)
    /\ progress_file = <<>>
    /\ \E n \in MaxCounts :
          agent = [NoAgent EXCEPT !.pc = "select", !.max_count = n,
                                  !.features0 = features_json]
    /\ IdleValidator
    /\ IdleToolCall
    /\ IdleClassifier
    /\ IdleCalls
    /\ IdleWorkflow

SelectFeatures ==
    /\ agent.pc = "select"
    /\ agent' = [agent EXCEPT
                   !.pc = "selected",
                   !.features = select_prioritized_features(
                                   incomplete_of(features_json), features_json,
                                   agent.max_count)]
    /\ UNCHANGED <<features_json, progress_file>>

NextSelect ==
    /\ SelectFeatures
    /\ UNCHANGED <<code, vself, vres, vprev, tool, params, decision,
                   classifierVars, callVars, workflowVars>>

SpecSelect == InitSelect /\ [][NextSelect]_vars

\* ---- one session ----------------------------------------------------------
\* the entry prepare_handoff appends to claude-progress.txt
HandoffText(features, baseline_passed) ==
    [completed |-> [k \in 1..Len(features) |-> features[k].id],
     baseline |-> baseline_passed]

session_num == 1

InitSession ==
    /\ \E c \in FeatureChoices({"high", "low"}, {{}, {"F1"}}) :
          features_json = FeatureFile(c)
    /\ progress_file \in { <<>>, <<HandoffText(<<>>, "pass")>> }
    /\ agent = [NoAgent EXCEPT !.pc = "get_bearings", !.features0 = features_json,
                               !.progress0 = progress_file]
    /\ IdleValidator
    /\ IdleToolCall
    /\ IdleClassifier
    /\ IdleCalls
    /\ IdleWorkflow

\* the baseline test with the return code of pytest ignored
baseline_ok_always(returncode) == TRUE

\* result.returncode == 0
baseline_ok(returncode) == returncode = 0

\* Phase 1: init.sh is absent, succeeds or fails; the baseline tests pass or fail
get_bearings ==
    /\ agent.pc = "get_bearings"
    /\ \E init_script \in {"absent", "ok", "failed"}, returncode \in {0, 1} :
          agent' = IF init_script = "failed"
                   THEN [agent EXCEPT !.pc = "RuntimeError",
                                      !.phases = Append(@, "get_bearings")]
                   ELSE [agent EXCEPT !.pc = "select_work",
                                      !.phases = Append(@, "get_bearings"),
                                      !.baseline_passed =
                                          IF returncode = 0 THEN "pass" ELSE "fail"]
    /\ UNCHANGED <<features_json, progress_file>>

\* Phase 2
select_work ==
    /\ agent.pc = "select_work"
    /\ agent' = [agent EXCEPT
                   !.pc = "implement_features",
                   !.phases = Append(@, "select_work"),
                   !.features = select_prioritized_features(
                                   incomplete_of(features_json), features_json,
                                   SelectWorkMaxCount)]
    /\ UNCHANGED <<features_json, progress_file>>

\* Phase 3 only reports
implement_features ==
    /\ agent.pc = "implement_features"
    /\ agent' = [agent EXCEPT !.pc = "verify_and_commit",
                              !.phases = Append(@, "implement_features")]
    /\ UNCHANGED <<features_json, progress_file>>

\* the first entry with the id of a selected feature is marked
RECURSIVE mark_one(_, _)
mark_one(all_features, id) ==
    IF all_features = <<>> THEN <<>>
    ELSE IF Head(all_features).id = id
    THEN <<[Head(all_features) EXCEPT !.passes = TRUE,
                                      !.verified_in_session = session_num]>>
         \o Tail(all_features)
    ELSE <<Head(all_features)>> \o mark_one(Tail(all_features), id)

RECURSIVE mark_features(_, _)
mark_features(all_features, features) ==
    IF features = <<>> THEN all_features
    ELSE mark_features(mark_one(all_features, Head(features).id), Tail(features))

\* Phase 4
verify_and_commit ==
    /\ agent.pc = "verify_and_commit"
    /\ \E returncode \in {0, 1} :
          IF baseline_ok(returncode)
          THEN /\ agent' = [agent EXCEPT !.pc = "prepare_handoff",
                                         !.phases = Append(@, "verify_and_commit"),
                                         !.baseline_passed = "pass",
                                         !.verified = (returncode = 0)]
               /\ features_json' = mark_features(features_json, agent.features)
          ELSE /\ agent' = [agent EXCEPT !.pc = "RuntimeError",
                                         !.phases = Append(@, "verify_and_commit")]
               /\ UNCHANGED features_json
    /\ UNCHANGED progress_file

\* Phase 5
prepare_handoff ==
    /\ agent.pc = "prepare_handoff"
    /\ progress_file' = Append(progress_file,
                               HandoffText(agent.features, agent.baseline_passed))
    /\ agent' = [agent EXCEPT !.pc = "complete",
                              !.phases = Append(@, "prepare_handoff")]
    /\ UNCHANGED features_json

NextSession ==
    /\ \/ get_bearings
       \/ select_work
       \/ implement_features
       \/ verify_and_commit
       \/ prepare_handoff
    /\ UNCHANGED <<code, vself, vres, vprev, tool, params, decision,
                   classifierVars, callVars, workflowVars>>

SpecSession == InitSession /\ [][NextSession]_vars

\* =========================================================================
\*  Properties of LongRunningAgent
\* =========================================================================
FeatureEligible(f) ==
    /\ ~ f.passes
    /\ f.blockers \subseteq completed_ids(features_json)

InFile(f) == \E k \in 1..Len(features_json) : features_json[k] = f

IsSelected(f) == \E k \in 1..Len(agent.features) : agent.features[k] = f

\* C29: the selection holds no feature with a blocker that is not passing,
\* at most max_count features, only incomplete features of the file, in the
\* order critical, high, normal, low; no eligible feature that was left out
\* has a higher priority than a selected one.
C29_SelectionRespectsBlockersLimitPriority ==
    agent.pc = "selected" =>
        /\ Len(agent.features) <= agent.max_count
        /\ \A k \in 1..Len(agent.features) :
              /\ InFile(agent.features[k])
              /\ FeatureEligible(agent.features[k])
        /\ \A k, l \in 1..Len(agent.features) :
              k < l => /\ priority_key(agent.features[k]) <= priority_key(agent.features[l])
                       /\ agent.features[k] # agent.features[l]
        /\ \A j \in 1..Len(features_json) :
              (FeatureEligible(features_json[j]) /\ ~ IsSelected(features_json[j]))
                 => \A k \in 1..Len(agent.features) :
                       priority_key(agent.features[k]) <= priority_key(features_json[j])

\* a blocked critical feature is passed over, the limit leaves an eligible
\* low feature out, and the feature taken comes later in the file
C29_Witness ==
    /\ agent.pc = "selected"
    /\ agent.max_count = 1
    /\ Len(features_json) = 3
    /\ features_json[1].priority = "low" /\ FeatureEligible(features_json[1])
    /\ features_json[2].priority = "critical" /\ ~ features_json[2].passes
    /\ features_json[2].blockers = {"F1"}
    /\ features_json[3].priority = "high"
    /\ agent.features = <<features_json[3]>>

SessionPhases ==
    <<"get_bearings", "select_work", "implement_features", "verify_and_commit",
      "prepare_handoff">>

\* C30: the phases run are a prefix of bearings, select, implement, verify,
\* handoff; features.json changes only after the baseline tests passed in
\* verify_and_commit, and then only by marking selected features passing; a
\* session stopped by a failed environment setup or by failed baseline tests
\* in verify_and_commit leaves features.json and the progress file as they
\* were; no passing feature becomes not passing.
C30_SessionProtocol ==
    /\ Len(agent.phases) <= Len(SessionPhases)
    /\ agent.phases = SubSeq(SessionPhases, 1, Len(agent.phases))
    /\ Len(features_json) = Len(agent.features0)
    /\ \A k \in 1..Len(features_json) :
          /\ agent.features0[k].passes => features_json[k].passes
          /\ features_json[k] # agent.features0[k] =>
                /\ agent.verified
                /\ features_json[k].passes
                /\ \E j \in 1..Len(agent.features) :
                      agent.features[j].id = features_json[k].id
    /\ agent.pc = "RuntimeError" =>
          /\ features_json = agent.features0
          /\ progress_file = agent.progress0
    /\ progress_file # agent.progress0 => agent.pc = "complete"

\* a complete session has marked a feature and kept one that already passed
C30_Witness ==
    /\ agent.pc = "complete"
    /\ agent.phases = SessionPhases
    /\ \E k \in 1..Len(features_json) :
          ~ agent.features0[k].passes /\ features_json[k].passes
    /\ \E k \in 1..Len(features_json) :
          agent.features0[k].passes /\ features_json[k] = agent.features0[k]
    /\ Len(progress_file) = Len(agent.progress0) + 1

====
